---- MODULE Spec2Model ----
(***************************************************************************)
(* CollabWrite: the replicated character sequence of core/crdt.py and the  *)
(* websocket session manager of api/v1/endpoints/websocket.py.             *)
(*                                                                         *)
(* Spec    : replicas of the CRDT class, one per site, exchanging the      *)
(*           Characters that insert and delete return.                     *)
(* SpecWS  : one document session of the websocket ConnectionManager,      *)
(*           from the first connection on: joins and updates.              *)
(* SpecFanout : a session four participants have joined; frames of every   *)
(*           kind, closes and the endpoints' teardown.                     *)
(* SpecLifecycle : a session two participants have joined, the client of   *)
(*           one of which has just closed; they edit, leave, come back     *)
(*           and ask for the state.                                        *)
(* SpecPresence : a session of two participants with cursors, heartbeats,  *)
(*           lapses of time and the sweeps of cleanup_task.                *)
(* SpecPersist : a session of two participants with updates and the ticks  *)
(*           of periodic_save.                                             *)
(* SpecLoad : a session of two participants who send updates of any        *)
(*           content, leave and connect again.                             *)
(* SpecManager : the ConnectionManager with two documents and the          *)
(*           endpoints of two users on either of them.                     *)
(* SpecVersion : one participant's updates and saves beside the requests   *)
(*           of the update endpoint of documents.py.                       *)
(* SpecAdmission : the handshakes of the websocket endpoint, and the       *)
(*           updates of the clients it lets in.                            *)
(* SpecTeardown : SpecPersist with the event loop running every task       *)
(*           that can go on.                                               *)
(* SpecQueue : the queue-based ConnectionManager of core/broadcast.py.     *)
(* SpecAuth : register and login of auth.py, two requests at a time.       *)
(* SpecChannels : the WebSockets stored in the ConnectionManager, with     *)
(*           several of one user.                                          *)
(* SpecJoin : joins to a document that the update endpoint writes.         *)
(***************************************************************************)
EXTENDS Integers, Sequences, FiniteSets, TLC

\* ------------------------------------------------------------------ bounds
MaxOps == 4       \* Spec: calls on all replicas and clock ticks together
MaxEvents == 4    \* SpecWS, SpecManager, SpecQueue, SpecChannels: connections opened and
                  \* messages sent by the clients, lapses of time
MaxDeltas == 2    \* SpecFanout: frames sent and sockets closed by the clients
MaxTurns == 3     \* SpecPresence: frames and closes of the clients, lapses of time
MaxSaves == 3     \* SpecPersist: frames and closes of the clients, ticks of periodic_save
MaxLoads == 4     \* SpecLoad: frames, closes and reconnections of the clients
MaxCalls == 4     \* SpecVersion: updates of the client, ticks, requests to update_document
MaxOpens == 2     \* SpecAdmission: handshakes, and updates sent by the clients let in
MaxRequests == 4  \* SpecAuth: calls of register and of login
MaxIdle == 6      \* the longest lapse of time in one step, in minutes
MaxSteps == 4     \* SpecLifecycle: frames, closes and reconnections of the clients

\* site_id = str(current_user.id)
Sites == {"1", "2", "3"}
Values == {"X", "Y"}

VARIABLES
    crdt,       \* site -> CRDT object: [site_id, characters, counter]
    now,        \* datetime.utcnow().timestamp()
    sent,       \* Characters returned by insert/delete and put on the wire
    log,        \* site -> the calls made on that replica, oldest first
    snapshot,   \* the stored dictionary (to_dict), <<>> when nothing is stored
    \* --- websocket.py: one document of the ConnectionManager
    active_connections, \* the document's dict user_id -> WebSocket: its entries in
                        \* insertion order, 0 where a key was popped; <<>> = no dict
    dict_id,            \* identity of that dict object (a new one per session)
    document_states,    \* <<state>>, or <<>> when the document has no entry
    user_cursors,       \* <<user -> <<cursor>> or <<>>>>, or <<>>: no entry for the document
    heartbeat_timestamps, \* <<user -> <<timestamp>> or <<>>>>, or <<>>: no entry
    user_sessions,      \* user -> <<session>>, or <<>> for a user without one
    clock,              \* datetime.utcnow() of the server, in minutes
    db,                 \* the Document row: [content, version]
    sock,               \* user -> state of the server's end of its WebSocket
    task,               \* user -> where its websocket_endpoint coroutine stands
    inbox,              \* user -> messages the client sent, not yet received
    outbox,             \* user -> messages sent over its WebSocket, oldest first
    seen,               \* user -> content of the last update its client sent or got
    writes,             \* the calls of save_document_state so far, oldest first
    fanout,             \* user -> its last accepted update and who was connected then
    missed,             \* the users whose socket was closed when an update was committed
    left,               \* how many more events the clients may cause
    \* --- websocket.py: the ConnectionManager with every document it holds
    manager,            \* its five dicts, the first four keyed by document_id
    endpoints,          \* <<document_id, user_id>> -> where that websocket_endpoint stands
    documents,          \* document_id -> the Document row: [content, version]
    \* --- documents.py: the requests of the document update endpoint
    puts,               \* request -> where its update_document call stands
    \* --- websocket.py, deps.py: the handshake of the websocket endpoint
    handshake,          \* the last handshake: [user, request, code]
    \* --- core/broadcast.py: the queue-based ConnectionManager, one document
    qmanager,           \* its dicts for the document, and the coroutines not yet over
    queued,             \* the messages queue_message has put on the queue, oldest first
    handled,            \* the messages _handle_message was called with, oldest first
    \* --- auth.py: the users table and the calls of register and login
    users,              \* the rows of the users table, by id
    calls,              \* request -> where its register or login call stands
    \* --- websocket.py: the WebSocket objects of the endpoints
    channels,           \* channel -> [document_id, user_id, pc] of its endpoint
    registered          \* <<document_id, user_id>> -> the channel stored for the key

crdtVars == <<crdt, now, sent, log, snapshot>>
wsVars == <<active_connections, dict_id, document_states, user_cursors,
            heartbeat_timestamps, user_sessions, clock, db, sock, task,
            inbox, outbox, seen, writes, fanout, missed, left>>
mgrVars == <<manager, endpoints, documents>>
appVars == <<puts, handshake, qmanager, queued, handled, users, calls, channels,
             registered>>
vars == <<crdtVars, wsVars, mgrVars, appVars>>

\* ------------------------------------------------------------ core/crdt.py

Position(site_id, counter, timestamp) ==
    [site_id |-> site_id, counter |-> counter, timestamp |-> timestamp]

Character(value, position, deleted) ==
    [value |-> value, position |-> position, deleted |-> deleted]

\* CRDT.__init__
NewCRDT(site_id) == [site_id |-> site_id, characters |-> <<>>, counter |-> 0]

\* CRDT.compare_positions
compare_positions(pos1, pos2) ==
    IF pos1.site_id # pos2.site_id
    THEN (IF pos1.timestamp < pos2.timestamp THEN -1 ELSE 1)
    ELSE (IF pos1.counter < pos2.counter THEN -1 ELSE 1)

\* list.insert(index, x) for 0 <= index (an index past the end appends)
ListInsert(s, index, x) ==
    IF index >= Len(s) THEN Append(s, x)
    ELSE SubSeq(s, 1, index) \o <<x>> \o SubSeq(s, index + 1, Len(s))

\* Python's floor division by 2
FloorDiv2(n) == n \div 2

\* CRDT.generate_position: the position it returns (the counter is bumped first)
generate_position(c, ts) == Position(c.site_id, c.counter + 1, ts)

\* The Position insert(index, value) builds; index is 0-based
InsertPosition(c, index, ts) ==
    IF c.characters = <<>> THEN generate_position(c, ts)
    ELSE IF index = 0 THEN Position(c.site_id, 0, ts)
    ELSE IF index >= Len(c.characters)
         THEN Position(c.site_id, c.characters[Len(c.characters)].position.counter + 1, ts)
    ELSE Position(c.site_id,
                  FloorDiv2(c.characters[index].position.counter
                            + c.characters[index + 1].position.counter),
                  ts)

\* CRDT.insert: the Character it returns
InsertedChar(c, index, value, ts) == Character(value, InsertPosition(c, index, ts), FALSE)

\* CRDT.insert: the object afterwards
insert(c, index, value, ts) ==
    IF c.characters = <<>>
    THEN [c EXCEPT !.counter = c.counter + 1,
                   !.characters = Append(c.characters, InsertedChar(c, index, value, ts))]
    ELSE [c EXCEPT !.characters = ListInsert(c.characters, index, InsertedChar(c, index, value, ts))]

\* delete as it would be with physical removal of the Character
delete_removing(c, index) ==
    IF 0 <= index /\ index < Len(c.characters)
    THEN [c EXCEPT !.characters = SubSeq(c.characters, 1, index)
                                  \o SubSeq(c.characters, index + 2, Len(c.characters))]
    ELSE c

\* delete as it would be if an index out of range fell on the last Character
delete_clamped(c, index) ==
    IF 0 <= index /\ index < Len(c.characters)
    THEN [c EXCEPT !.characters[index + 1].deleted = TRUE]
    ELSE IF c.characters = <<>> THEN c
    ELSE [c EXCEPT !.characters[Len(c.characters)].deleted = TRUE]

\* CRDT.delete: the object afterwards (index is 0-based)
delete(c, index) ==
    IF 0 <= index /\ index < Len(c.characters)
    THEN [c EXCEPT !.characters[index + 1].deleted = TRUE]
    ELSE c

\* CRDT.delete: what it returns, <<>> for None
DeleteResult(c, index) ==
    IF 0 <= index /\ index < Len(c.characters)
    THEN <<[c.characters[index + 1] EXCEPT !.deleted = TRUE]>>
    ELSE <<>>

\* CRDT.get_text
RECURSIVE TextOf(_)
TextOf(chars) ==
    IF chars = <<>> THEN <<>>
    ELSE (IF Head(chars).deleted THEN <<>> ELSE <<Head(chars).value>>) \o TextOf(Tail(chars))

get_text(c) == TextOf(c.characters)

\* CRDT.apply_remote_operation: the loop that finds insert_index (0-based)
RECURSIVE FindInsertIndex(_, _, _)
FindInsertIndex(chars, char, i) ==
    IF i >= Len(chars) THEN i
    ELSE IF compare_positions(chars[i + 1].position, char.position) > 0 THEN i
    ELSE FindInsertIndex(chars, char, i + 1)

\* CRDT.apply_remote_operation: the object afterwards
apply_remote_operation(c, char) ==
    [c EXCEPT !.characters = ListInsert(c.characters, FindInsertIndex(c.characters, char, 0), char)]

\* CRDT.to_dict
to_dict(c) ==
    [characters |->
        [i \in 1..Len(c.characters) |->
            [value |-> c.characters[i].value,
             position |-> [site_id |-> c.characters[i].position.site_id,
                           counter |-> c.characters[i].position.counter,
                           timestamp |-> c.characters[i].position.timestamp],
             deleted |-> c.characters[i].deleted]]]

\* from_dict as it would be without the deleted flag: every Character comes back live
from_dict_live(data, site_id) ==
    [NewCRDT(site_id) EXCEPT !.characters =
        [i \in 1..Len(data.characters) |->
            Character(data.characters[i].value,
                      Position(data.characters[i].position.site_id,
                               data.characters[i].position.counter,
                               data.characters[i].position.timestamp),
                      FALSE)]]

\* CRDT.from_dict
from_dict(data, site_id) ==
    [NewCRDT(site_id) EXCEPT !.characters =
        [i \in 1..Len(data.characters) |->
            Character(data.characters[i].value,
                      Position(data.characters[i].position.site_id,
                               data.characters[i].position.counter,
                               data.characters[i].position.timestamp),
                      data.characters[i].deleted)]]

\* ------------------------------------------- api/v1/endpoints/websocket.py

Users == {1, 2, 3, 4}

\* the characters of a text: the texts here are at most one character long
TextChars(text) == IF text = "" THEN <<>> ELSE <<text>>

\* websocket_endpoint: for i, char in enumerate(text): crdt.insert(i, char)
RECURSIVE InsertEach(_, _, _, _)
InsertEach(c, chars, i, ts) ==
    IF i >= Len(chars) THEN c
    ELSE InsertEach(insert(c, i, chars[i + 1], ts), chars, i + 1, ts)

\* websocket_endpoint: the CRDT it builds from the content of the row before it
\* connects. With a characters key it calls crdt.from_dict(...), a classmethod,
\* and drops the CRDT that returns: its own stays empty.
endpoint_crdt(content, u, ts) ==
    IF content = <<>> THEN NewCRDT(ToString(u))
    ELSE IF "characters" \in DOMAIN content[1] THEN NewCRDT(ToString(u))
    ELSE InsertEach(NewCRDT(ToString(u)), TextChars(content[1].text), 0, ts)
Texts == {"a", "b"}

\* message.get("data", {}) of a cursor message: <<>> is the empty dict
CursorData == {[position |-> 0]}

\* the state connect() uses when the Document row holds no content
DefaultState == [text |-> "", version |-> 0]

\* a wire message; content is <<>> where the message carries none
Msg(type, user_id, content) == [type |-> type, user_id |-> user_id, content |-> content]

\* the heartbeat_response of process_messages
HeartbeatResponse(t) == [type |-> "heartbeat_response", timestamp |-> t]

\* the sync_response of process_messages: its keys are type and content
SyncResponse(state) == [type |-> "sync_response", content |-> state]

\* a frame that is JSON but not an object, and the close of the client's end
\* (receive_json raises WebSocketDisconnect when it comes to it)
NotAnObject == Msg("<array>", 0, <<>>)
ClientClosed == Msg("<close>", 0, <<>>)

\* where a websocket_endpoint coroutine stands between two awaits: pc, the message
\* being broadcast and the dict iterator of broadcast_message (pos: entries passed,
\* used: the dict's size when the iterator was made, left: items still to come,
\* dict: the dict iterated), doc: the row content the endpoint read
Off == [pc |-> "off", msg |-> Msg("", 0, <<>>), exclude |-> 0,
        pos |-> 0, used |-> 0, left |-> 0, dict |-> 0, doc |-> <<>>]

At(pc) == [Off EXCEPT !.pc = pc]

KeySet(entries) == {entries[i] : i \in 1..Len(entries)} \ {0}

\* dict.pop(user_id, None) on the entries
Pop(entries, u) == [i \in 1..Len(entries) |-> IF entries[i] = u THEN 0 ELSE entries[i]]

\* dict[user_id] = websocket: in place for a key the dict holds, else a new entry
Put(entries, u) == IF u \in KeySet(entries) THEN entries ELSE Append(entries, u)

\* user_cursors[document_id] = {}
NoCursors == [u \in Users |-> <<>>]

\* heartbeat_timestamps[document_id] = {}
NoHeartbeats == [u \in Users |-> <<>>]

\* the user_sessions entry connect() makes; of its keys the model keeps last_activity
Session(t) == [last_activity |-> t]

WSInit ==
    /\ left = MaxEvents
    /\ active_connections = <<>>
    /\ dict_id = 0
    /\ document_states = <<>>
    /\ user_cursors = <<>>
    /\ heartbeat_timestamps = <<>>
    /\ user_sessions = [u \in Users |-> <<>>]
    /\ clock = 0
    /\ db = [content |-> <<>>, version |-> 1]
    /\ sock = [u \in Users |-> "none"]
    /\ task = [u \in Users |-> Off]
    /\ inbox = [u \in Users |-> <<>>]
    /\ outbox = [u \in Users |-> <<>>]
    /\ seen = [u \in Users |-> <<>>]
    /\ writes = <<>>
    /\ fanout = [u \in Users |-> <<>>]
    /\ missed = {}

\* document_before_update: the committed content carries the row's version
Committed(content, version) == [content EXCEPT !.version = version]

\* save_document_state that commits the version and leaves the stored content
save_document_state_stale(row, state) ==
    [content |-> row.content, version |-> row.version + 1]

\* save_document_state: the Document row afterwards (the row exists)
save_document_state(row, state) ==
    [content |-> <<Committed(state, row.version + 1)>>, version |-> row.version + 1]

\* a call of save_document_state as the log of writes keeps it
Write(state, ok, by) == [state |-> state, ok |-> ok, by |-> by]

\* periodic_save: what one tick, or the cancellation, writes
periodic_save(states, ok, by) == IF states # <<>> THEN <<Write(states[1], ok, by)>> ELSE <<>>

\* ConnectionManager.disconnect: the entries afterwards (<<>> once no key is left)
DisconnectEntries(entries, u) ==
    IF KeySet(Pop(entries, u)) = {} THEN <<>> ELSE Pop(entries, u)

\* ConnectionManager.disconnect: document_states afterwards
DisconnectStates(entries, states, u) ==
    IF KeySet(entries) # {} /\ KeySet(Pop(entries, u)) = {} THEN <<>> ELSE states

\* ConnectionManager.disconnect: user_cursors afterwards
DisconnectCursors(entries, cur, u) ==
    IF KeySet(entries) = {} THEN cur
    ELSE IF KeySet(Pop(entries, u)) = {} THEN <<>>
    ELSE IF cur = <<>> THEN cur
    ELSE <<[cur[1] EXCEPT ![u] = <<>>]>>

\* ConnectionManager.disconnect: heartbeat_timestamps afterwards
DisconnectHeartbeats(entries, hb, u) ==
    IF KeySet(entries) = {} THEN hb
    ELSE IF KeySet(Pop(entries, u)) = {} THEN <<>>
    ELSE IF hb = <<>> THEN hb
    ELSE <<[hb[1] EXCEPT ![u] = <<>>]>>

\* ConnectionManager.disconnect: user_sessions afterwards
DisconnectSessions(entries, ses, u) ==
    IF KeySet(entries) = {} THEN ses ELSE [ses EXCEPT ![u] = <<>>]

\* user_sessions[user_id]['last_activity'] = datetime.utcnow(), for a user with a session
touch(ses, u) == IF ses[u] # <<>> THEN [ses EXCEPT ![u] = <<Session(clock)>>] ELSE ses

\* the iterator broadcast_message takes over the dict's items
StartBroadcast(entries, msg, exclude, pc, doc) ==
    [pc |-> pc, msg |-> msg, exclude |-> exclude, pos |-> 0,
     used |-> Cardinality(KeySet(entries)), left |-> Cardinality(KeySet(entries)),
     dict |-> dict_id, doc |-> doc]

\* the entries the iterator has yet to pass
Ahead(it, entries) == {i \in (it.pos + 1)..Len(entries) : entries[i] # 0}

Min(S) == CHOOSE x \in S : \A y \in S : x <= y

\* how many items the iterator yields before one that is sent to (the excluded
\* user's item is passed without an await)
SkipsExcluded(it, entries) ==
    IF Ahead(it, entries) # {} /\ entries[Min(Ahead(it, entries))] = it.exclude THEN 1 ELSE 0

AfterSkip(it, entries) ==
    IF SkipsExcluded(it, entries) = 1
    THEN [it EXCEPT !.pos = Min(Ahead(it, entries)), !.left = it.left - 1]
    ELSE it

\* next() raises RuntimeError: the dict changed size, or holds more keys than it had
IteratorFails(it, entries) ==
    \/ it.dict # dict_id
    \/ Cardinality(KeySet(entries)) # it.used
    \/ Ahead(it, entries) # {} /\ it.left = 0

\* an exception leaves the broadcast of user u. Out of connect() it leaves
\* websocket_endpoint, which has not entered its try block: nothing is cleaned up.
\* Out of a handler of process_messages it is caught there: disconnect(u), and the
\* loop is over. Out of the WebSocketDisconnect handler it ends process_messages
\* and is caught by the endpoint. Both go on in the endpoint's finally.
Fail(u, it, entries, states, row, ob, cur, hb, ses) ==
    /\ outbox' = ob
    /\ seen' = seen
    /\ dict_id' = dict_id
    /\ db' = row
    /\ IF it.pc = "join"
       THEN /\ sock' = [sock EXCEPT ![u] = "dead"]
            /\ task' = [task EXCEPT ![u] = Off]
            /\ active_connections' = entries
            /\ document_states' = states
            /\ user_cursors' = cur
            /\ heartbeat_timestamps' = hb
            /\ user_sessions' = ses
       ELSE IF it.pc = "bcast"
       THEN /\ sock' = sock
            /\ task' = [task EXCEPT ![u] = At("finally")]
            /\ active_connections' = DisconnectEntries(entries, u)
            /\ document_states' = DisconnectStates(entries, states, u)
            /\ user_cursors' = DisconnectCursors(entries, cur, u)
            /\ heartbeat_timestamps' = DisconnectHeartbeats(entries, hb, u)
            /\ user_sessions' = DisconnectSessions(entries, ses, u)
       ELSE /\ sock' = sock
            /\ task' = [task EXCEPT ![u] = At("finally")]
            /\ active_connections' = entries
            /\ document_states' = states
            /\ user_cursors' = cur
            /\ heartbeat_timestamps' = hb
            /\ user_sessions' = ses

\* the loop of broadcast_message is over: connect() returns and the endpoint sends
\* its own init, a handler returns to receive_json, the WebSocketDisconnect handler
\* ends process_messages
Finish(u, it, entries, states, row, ob, cur, hb, ses) ==
    /\ active_connections' = entries
    /\ document_states' = states
    /\ user_cursors' = cur
    /\ heartbeat_timestamps' = hb
    /\ user_sessions' = ses
    /\ db' = row
    /\ dict_id' = dict_id
    /\ sock' = sock
    /\ seen' = seen
    /\ IF it.pc = "join"
       THEN \/ /\ sock[u] = "open"
               /\ outbox' = [ob EXCEPT ![u] = Append(@, Msg("init", u, it.doc))]
               /\ task' = [task EXCEPT ![u] = At("recv")]
            \/ /\ sock[u] = "closed"      \* the frame is lost without an error
               /\ outbox' = ob
               /\ task' = [task EXCEPT ![u] = At("recv")]
            \/ /\ sock[u] = "closed"      \* send_json raises: except, then finally
               /\ outbox' = ob
               /\ task' = [task EXCEPT ![u] = At("finally")]
       ELSE /\ outbox' = ob
            /\ task' = [task EXCEPT ![u] = At(IF it.pc = "leave" THEN "finally" ELSE "recv")]

\* ConnectionManager.broadcast_message from iterator it up to its next await; what
\* is sent to an open socket reaches its client
RunBroadcast(u, it0, entries, states, row, ob, cur, hb, ses) ==
    LET it == AfterSkip(it0, entries) IN
    IF IteratorFails(it0, entries) \/ IteratorFails(it, entries)
    THEN Fail(u, it, entries, states, row, ob, cur, hb, ses)
    ELSE IF Ahead(it, entries) = {}
    THEN Finish(u, it, entries, states, row, ob, cur, hb, ses)
    ELSE LET i == Min(Ahead(it, entries))
             v == entries[i]
             on == [it EXCEPT !.pos = i, !.left = it.left - 1]
         IN \/ /\ sock[v] = "open"
               /\ outbox' = [ob EXCEPT ![v] = Append(@, it.msg)]
               /\ seen' = IF it.msg.type = "update"
                          THEN [seen EXCEPT ![v] = it.msg.content] ELSE seen
               /\ task' = [task EXCEPT ![u] = on]
               /\ active_connections' = entries
               /\ document_states' = states
               /\ user_cursors' = cur
               /\ heartbeat_timestamps' = hb
               /\ user_sessions' = ses
               /\ db' = row
               /\ dict_id' = dict_id
               /\ sock' = sock
            \/ /\ sock[v] = "closed"      \* the frame is lost without an error
               /\ outbox' = ob
               /\ seen' = seen
               /\ task' = [task EXCEPT ![u] = on]
               /\ active_connections' = entries
               /\ document_states' = states
               /\ user_cursors' = cur
               /\ heartbeat_timestamps' = hb
               /\ user_sessions' = ses
               /\ db' = row
               /\ dict_id' = dict_id
               /\ sock' = sock
            \/ /\ sock[v] # "open"
               \* send_json raises: disconnect(v), and the iterator then finds
               \* the dict smaller
               /\ Fail(u, on, DisconnectEntries(entries, v),
                       DisconnectStates(entries, states, v), row, ob,
                       DisconnectCursors(entries, cur, v),
                       DisconnectHeartbeats(entries, hb, v),
                       DisconnectSessions(entries, ses, v))

\* websocket_endpoint, once the user may have the document, up to connect()'s
\* first send
Accept(u) ==
    /\ left > 0
    /\ \A v \in Users : v < u => sock[v] # "none"
    /\ task[u].pc = "off"
    /\ left' = left - 1
    /\ sock' = [sock EXCEPT ![u] = "open"]
    /\ inbox' = [inbox EXCEPT ![u] = <<>>]
    /\ LET fresh == active_connections = <<>>
           states == IF ~fresh THEN document_states
                     ELSE IF db.content # <<>> THEN db.content ELSE <<DefaultState>>
       IN /\ active_connections' = Put(active_connections, u)
          /\ dict_id' = IF fresh THEN dict_id + 1 ELSE dict_id
          /\ document_states' = states
          /\ user_cursors' = IF fresh THEN <<NoCursors>> ELSE user_cursors
          /\ heartbeat_timestamps' =
                <<[(IF fresh THEN NoHeartbeats ELSE heartbeat_timestamps[1]) EXCEPT ![u] = <<clock>>]>>
          /\ user_sessions' = [user_sessions EXCEPT ![u] = <<Session(clock)>>]
          /\ outbox' = [outbox EXCEPT ![u] = <<Msg("init", 0, states)>>]
          /\ task' = [task EXCEPT ![u] = [Off EXCEPT !.pc = "joined",
                                                  !.doc = <<to_dict(endpoint_crdt(db.content, u, clock))>>]]
    /\ UNCHANGED <<db, seen, writes, fanout, missed, clock, crdtVars, mgrVars>>

\* a client that may have the document opens the websocket
Connect(u) == Accept(u) /\ UNCHANGED appVars

\* connect() goes on: presence_join to the others, then the endpoint's own init
JoinBroadcast(u) ==
    /\ task[u].pc = "joined"
    /\ RunBroadcast(u, StartBroadcast(active_connections, Msg("presence_join", u, <<>>),
                                      u, "join", task[u].doc),
                    active_connections, document_states, db, outbox, user_cursors,
                    heartbeat_timestamps, user_sessions)
    /\ UNCHANGED <<inbox, writes, fanout, missed, left, clock, crdtVars, mgrVars, appVars>>

\* a broadcast goes on after an await
BroadcastStep(u) ==
    /\ task[u].pc \in {"join", "bcast", "leave"}
    /\ RunBroadcast(u, task[u], active_connections, document_states, db, outbox,
                    user_cursors, heartbeat_timestamps, user_sessions)
    /\ UNCHANGED <<inbox, writes, fanout, missed, left, clock, crdtVars, mgrVars, appVars>>

\* the client of u puts a frame on its open socket
ClientFrame(u, frame) ==
    /\ left > 0
    /\ sock[u] = "open"
    /\ inbox' = [inbox EXCEPT ![u] = Append(@, frame)]
    /\ left' = left - 1

\* the client of u sends an update with the whole text
ClientSend(u) ==
    /\ \E t \in Texts :
        /\ (\A v \in Users : seen[v] = <<>>) => t = "a"
        /\ ClientFrame(u, Msg("update", u, <<[text |-> t, version |-> 0]>>))
        /\ seen' = [seen EXCEPT ![u] = <<[text |-> t, version |-> 0]>>]
    /\ UNCHANGED <<active_connections, dict_id, document_states, user_cursors, heartbeat_timestamps, user_sessions, db, sock,
                   task, outbox, writes, fanout, missed, clock, crdtVars, mgrVars, appVars>>

\* the client of u sends its cursor, with or without the data field
ClientSendCursor(u) ==
    /\ \E content \in {<<>>} \cup {<<d>> : d \in CursorData} :
        ClientFrame(u, Msg("cursor", u, content))
    /\ UNCHANGED <<active_connections, dict_id, document_states, user_cursors, heartbeat_timestamps, user_sessions, db, sock,
                   task, outbox, seen, writes, fanout, missed, clock, crdtVars, mgrVars, appVars>>

\* the client of u asks for the state
ClientSendSync(u) ==
    /\ ClientFrame(u, Msg("sync_request", u, <<>>))
    /\ UNCHANGED <<active_connections, dict_id, document_states, user_cursors, heartbeat_timestamps, user_sessions, db, sock,
                   task, outbox, seen, writes, fanout, missed, clock, crdtVars, mgrVars, appVars>>

\* the client of u sends a frame no handler is written for: an array, an object
\* of unknown type, an update without content
ClientSendMalformed(u) ==
    /\ \E frame \in {NotAnObject, Msg("unknown", u, <<>>), Msg("update", u, <<>>)} :
        ClientFrame(u, frame)
    /\ UNCHANGED <<active_connections, dict_id, document_states, user_cursors, heartbeat_timestamps, user_sessions, db, sock,
                   task, outbox, seen, writes, fanout, missed, clock, crdtVars, mgrVars, appVars>>

\* the client of u closes its end
ClientClose(u) ==
    /\ left > 0
    /\ sock[u] = "open"
    /\ sock' = [sock EXCEPT ![u] = "closed"]
    /\ inbox' = [inbox EXCEPT ![u] = Append(@, ClientClosed)]
    /\ left' = left - 1
    /\ UNCHANGED <<active_connections, dict_id, document_states, user_cursors, heartbeat_timestamps, user_sessions, db,
                   task, outbox, seen, writes, fanout, missed, clock, crdtVars, mgrVars, appVars>>

\* process_messages: receive_json() returns the frame at the head of the inbox
Received(u, type) ==
    /\ task[u].pc = "recv"
    /\ inbox[u] # <<>>
    /\ Head(inbox[u]).type = type
    /\ inbox' = [inbox EXCEPT ![u] = Tail(@)]

\* process_messages: an update, handled up to the first await of its broadcast;
\* the write of save_document_state succeeds or raises
ReceiveUpdate(u) ==
    /\ Received(u, "update")
    /\ Head(inbox[u]).content # <<>>
    /\ \E ok \in BOOLEAN :
        LET new == Head(inbox[u]).content[1]
            content == IF ok THEN Committed(new, db.version + 1) ELSE new
            row == IF ok THEN save_document_state(db, new) ELSE db
            msg == Msg("update", u, <<content>>)
        IN /\ writes' = Append(writes, Write(new, ok, "update"))
           /\ fanout' = [fanout EXCEPT ![u] =
                           <<[msg |-> msg,
                              at |-> [v \in {w \in KeySet(active_connections) \ {u} : sock[w] = "open"}
                                        |-> Len(outbox[v])]]>>]
           /\ missed' = IF ok THEN missed \cup {v \in Users : sock[v] \in {"closed", "dead"}}
                        ELSE missed
           /\ IF active_connections # <<>>
              THEN RunBroadcast(u, StartBroadcast(active_connections, msg, u, "bcast", task[u].doc),
                                active_connections, <<content>>, row, outbox, user_cursors,
                                heartbeat_timestamps, user_sessions)
              ELSE /\ document_states' = <<content>>
                   /\ db' = row
                   /\ UNCHANGED <<active_connections, dict_id, user_cursors, heartbeat_timestamps, user_sessions, sock, task,
                                  outbox, seen>>
    /\ UNCHANGED <<left, clock, crdtVars, mgrVars, appVars>>

\* ConnectionManager.update_cursor: user_cursors afterwards
update_cursor(cur, u, data) ==
    <<[(IF cur = <<>> THEN NoCursors ELSE cur[1]) EXCEPT ![u] = <<data>>]>>

\* process_messages: a cursor message; data is {} when the message has none
ReceiveCursor(u) ==
    /\ Received(u, "cursor")
    /\ LET data == IF Head(inbox[u]).content = <<>> THEN <<>> ELSE Head(inbox[u]).content[1]
           cur == update_cursor(user_cursors, u, data)
       IN IF active_connections # <<>>
          THEN RunBroadcast(u, StartBroadcast(active_connections, Msg("cursor", u, <<data>>),
                                              u, "bcast", task[u].doc),
                            active_connections, document_states, db, outbox, cur,
                            heartbeat_timestamps, touch(user_sessions, u))
          ELSE /\ user_cursors' = cur
               /\ heartbeat_timestamps' = heartbeat_timestamps
               /\ user_sessions' = touch(user_sessions, u)
               /\ UNCHANGED <<active_connections, dict_id, document_states, db, sock, task,
                              outbox, seen>>
    /\ UNCHANGED <<writes, fanout, missed, left, clock, crdtVars, mgrVars, appVars>>

\* process_messages: a sync_request; answered if get_document_state() is not empty
ReceiveSync(u) ==
    /\ Received(u, "sync_request")
    /\ \/ /\ document_states = <<>> \/ sock[u] = "closed"   \* no send, or a lost frame
          /\ UNCHANGED <<active_connections, document_states, user_cursors, heartbeat_timestamps, user_sessions, task, outbox>>
       \/ /\ document_states # <<>> /\ sock[u] = "open"
          /\ outbox' = [outbox EXCEPT ![u] = Append(@, SyncResponse(document_states[1]))]
          /\ UNCHANGED <<active_connections, document_states, user_cursors, heartbeat_timestamps, user_sessions, task>>
       \/ /\ document_states # <<>> /\ sock[u] # "open"   \* send_json raises
          /\ active_connections' = DisconnectEntries(active_connections, u)
          /\ document_states' = DisconnectStates(active_connections, document_states, u)
          /\ user_cursors' = DisconnectCursors(active_connections, user_cursors, u)
          /\ heartbeat_timestamps' = DisconnectHeartbeats(active_connections, heartbeat_timestamps, u)
          /\ user_sessions' = DisconnectSessions(active_connections, user_sessions, u)
          /\ task' = [task EXCEPT ![u] = At("finally")]
          /\ UNCHANGED outbox
    /\ UNCHANGED <<dict_id, db, sock, seen, writes, fanout, missed, left, clock, crdtVars, mgrVars, appVars>>

\* process_messages: a frame no branch takes (unknown type, update without content)
ReceiveIgnored(u) ==
    /\ \/ Received(u, "unknown")
       \/ Received(u, "update") /\ Head(inbox[u]).content = <<>>
    /\ UNCHANGED <<active_connections, dict_id, document_states, user_cursors, heartbeat_timestamps, user_sessions, db, sock,
                   task, outbox, seen, writes, fanout, missed, left, clock, crdtVars, mgrVars, appVars>>

\* process_messages: message.get on a frame that is not an object raises, the
\* except branch calls disconnect(u) and the loop is over
ReceiveNotAnObject(u) ==
    /\ Received(u, "<array>")
    /\ active_connections' = DisconnectEntries(active_connections, u)
    /\ document_states' = DisconnectStates(active_connections, document_states, u)
    /\ user_cursors' = DisconnectCursors(active_connections, user_cursors, u)
    /\ heartbeat_timestamps' = DisconnectHeartbeats(active_connections, heartbeat_timestamps, u)
    /\ user_sessions' = DisconnectSessions(active_connections, user_sessions, u)
    /\ task' = [task EXCEPT ![u] = At("finally")]
    /\ UNCHANGED <<dict_id, db, sock, outbox, seen, writes, fanout, missed, left, clock, crdtVars, mgrVars, appVars>>

\* process_messages: receive_json raises WebSocketDisconnect: disconnect(u), then
\* presence_leave to whoever is left, up to the first await
ReceiveDisconnect(u) ==
    /\ Received(u, "<close>")
    /\ RunBroadcast(u, StartBroadcast(DisconnectEntries(active_connections, u),
                                      Msg("presence_leave", u, <<>>), 0, "leave", task[u].doc),
                    DisconnectEntries(active_connections, u),
                    DisconnectStates(active_connections, document_states, u),
                    db, outbox,
                    DisconnectCursors(active_connections, user_cursors, u),
                    DisconnectHeartbeats(active_connections, heartbeat_timestamps, u),
                    DisconnectSessions(active_connections, user_sessions, u))
    /\ UNCHANGED <<writes, fanout, missed, left, clock, crdtVars, mgrVars, appVars>>

\* websocket_endpoint's finally: periodic_save is cancelled and writes the state
\* get_document_state() returns, if any; then disconnect(u) and close()
EndpointFinally(u) ==
    /\ task[u].pc = "finally"
    /\ \E ok \in BOOLEAN :
        /\ document_states = <<>> => ok
        /\ LET flush == document_states # <<>>
               states == IF flush /\ ok
                         THEN <<Committed(document_states[1], db.version + 1)>>
                         ELSE document_states
           IN /\ writes' = writes \o periodic_save(document_states, ok, "flush")
              /\ db' = IF flush /\ ok THEN save_document_state(db, document_states[1]) ELSE db
              /\ active_connections' = DisconnectEntries(active_connections, u)
              /\ document_states' = DisconnectStates(active_connections, states, u)
              /\ user_cursors' = DisconnectCursors(active_connections, user_cursors, u)
              /\ heartbeat_timestamps' = DisconnectHeartbeats(active_connections, heartbeat_timestamps, u)
              /\ user_sessions' = DisconnectSessions(active_connections, user_sessions, u)
    /\ sock' = [sock EXCEPT ![u] = "dead"]
    /\ task' = [task EXCEPT ![u] = Off]
    /\ UNCHANGED <<dict_id, inbox, outbox, seen, fanout, missed, left, clock, crdtVars, mgrVars, appVars>>

\* a value of the text key that is not a string (a number)
NotAString == "<number>"

\* what DocumentContent of schemas/document.py takes for a content: its text is a string
WellFormed(content) == content.text # NotAString

\* the client of u sends an update whose content is an object with a text key, the
\* text not being a string
ClientSendTyped(u) ==
    /\ ClientFrame(u, Msg("update", u, <<[text |-> NotAString, characters |-> <<>>, version |-> 0]>>))
    /\ seen' = [seen EXCEPT ![u] = <<[text |-> NotAString, characters |-> <<>>, version |-> 0]>>]
    /\ UNCHANGED <<active_connections, dict_id, document_states, user_cursors,
                   heartbeat_timestamps, user_sessions, db, sock, task, outbox,
                   writes, fanout, missed, clock, crdtVars, mgrVars, appVars>>

\* the client of u sends a heartbeat
ClientSendHeartbeat(u) ==
    /\ ClientFrame(u, Msg("heartbeat", u, <<>>))
    /\ UNCHANGED <<active_connections, dict_id, document_states, user_cursors,
                   heartbeat_timestamps, user_sessions, db, sock, task, outbox, seen,
                   writes, fanout, missed, clock, crdtVars, mgrVars, appVars>>

\* ConnectionManager.update_heartbeat: heartbeat_timestamps afterwards
update_heartbeat(hb, u) == IF hb = <<>> THEN hb ELSE <<[hb[1] EXCEPT ![u] = <<clock>>]>>

\* process_messages: a heartbeat; update_heartbeat(), then the response to the
\* sender, whose send_json may raise on a socket the client has closed
ReceiveHeartbeat(u) ==
    /\ Received(u, "heartbeat")
    /\ LET hb == update_heartbeat(heartbeat_timestamps, u)
           ses == IF heartbeat_timestamps = <<>> THEN user_sessions
                  ELSE touch(user_sessions, u)
       IN \/ /\ sock[u] = "open"
             /\ outbox' = [outbox EXCEPT ![u] = Append(@, HeartbeatResponse(clock))]
             /\ heartbeat_timestamps' = hb
             /\ user_sessions' = ses
             /\ UNCHANGED <<active_connections, document_states, user_cursors, task>>
          \/ /\ sock[u] = "closed"      \* the frame is lost without an error
             /\ heartbeat_timestamps' = hb
             /\ user_sessions' = ses
             /\ UNCHANGED <<active_connections, document_states, user_cursors, task, outbox>>
          \/ /\ sock[u] # "open"        \* send_json raises: except, disconnect(u)
             /\ active_connections' = DisconnectEntries(active_connections, u)
             /\ document_states' = DisconnectStates(active_connections, document_states, u)
             /\ user_cursors' = DisconnectCursors(active_connections, user_cursors, u)
             /\ heartbeat_timestamps' = DisconnectHeartbeats(active_connections, hb, u)
             /\ user_sessions' = DisconnectSessions(active_connections, ses, u)
             /\ task' = [task EXCEPT ![u] = At("finally")]
             /\ UNCHANGED outbox
    /\ UNCHANGED <<dict_id, db, sock, seen, writes, fanout, missed, left, clock, crdtVars, mgrVars, appVars>>

\* time passes
Elapse ==
    /\ left > 0
    /\ left' = left - 1
    /\ \E d \in 1..MaxIdle : clock' = clock + d
    /\ UNCHANGED <<active_connections, dict_id, document_states, user_cursors,
                   heartbeat_timestamps, user_sessions, db, sock, task, inbox, outbox,
                   seen, writes, fanout, missed, crdtVars, mgrVars, appVars>>

\* ConnectionManager.get_user_status
get_user_status(ses, u, t) ==
    IF ses[u] = <<>> THEN "offline"
    ELSE IF t - ses[u][1].last_activity < 1 THEN "online"
    ELSE IF t - ses[u][1].last_activity < 5 THEN "away"
    ELSE "offline"

\* cleanup_inactive_users: the users it calls disconnect() for
inactive_users(ses, t) ==
    {u \in Users : ses[u] # <<>> /\ t - ses[u][1].last_activity > 5}

\* cleanup_inactive_users: disconnect() for each of them, one after the other;
\* the result is [entries, states, cur, hb, ses]
RECURSIVE DisconnectAll(_, _)
DisconnectAll(m, S) ==
    IF S = {} THEN m
    ELSE LET u == Min(S)
         IN DisconnectAll([entries |-> DisconnectEntries(m.entries, u),
                           states |-> DisconnectStates(m.entries, m.states, u),
                           cur |-> DisconnectCursors(m.entries, m.cur, u),
                           hb |-> DisconnectHeartbeats(m.entries, m.hb, u),
                           ses |-> DisconnectSessions(m.entries, m.ses, u)],
                          S \ {u})

cleanup_inactive_users ==
    DisconnectAll([entries |-> active_connections, states |-> document_states,
                   cur |-> user_cursors, hb |-> heartbeat_timestamps,
                   ses |-> user_sessions],
                  inactive_users(user_sessions, clock))

\* the tasks an endpoint starts before its own init (periodic_save, cleanup_task)
\* run until its finally block cancels them
HasTasks(u) == task[u].pc \in {"recv", "bcast", "leave", "finally"}

\* cleanup_task of the endpoint of u: a sweep
Sweep(u) ==
    /\ HasTasks(u)
    /\ LET m == cleanup_inactive_users
       IN /\ active_connections' = m.entries
          /\ document_states' = m.states
          /\ user_cursors' = m.cur
          /\ heartbeat_timestamps' = m.hb
          /\ user_sessions' = m.ses
    /\ UNCHANGED <<dict_id, db, sock, task, inbox, outbox, seen, writes, fanout, missed,
                   left, clock, crdtVars, mgrVars, appVars>>

\* periodic_save of the endpoint of u: a tick; the write succeeds or raises
PeriodicSave(u) ==
    /\ HasTasks(u)
    /\ left > 0
    /\ left' = left - 1
    /\ \E ok \in BOOLEAN :
        /\ document_states = <<>> => ok
        /\ writes' = writes \o periodic_save(document_states, ok, "tick")
        /\ db' = IF document_states # <<>> /\ ok
                 THEN save_document_state(db, document_states[1]) ELSE db
        /\ document_states' = IF document_states # <<>> /\ ok
                              THEN <<Committed(document_states[1], db.version + 1)>>
                              ELSE document_states
    /\ UNCHANGED <<active_connections, dict_id, user_cursors, heartbeat_timestamps,
                   user_sessions, sock, task, inbox, outbox, seen, fanout, missed,
                   clock, crdtVars, mgrVars, appVars>>

WSNext ==
    \/ \E u \in Users : Connect(u)
    \/ \E u \in Users : JoinBroadcast(u)
    \/ \E u \in Users : BroadcastStep(u)
    \/ \E u \in Users : ClientSend(u)
    \/ \E u \in Users : ReceiveUpdate(u)

\* a participant whose endpoint is over opens the websocket again
Reconnect(u) == sock[u] = "dead" /\ Connect(u)

\* users 1..n have joined the document one after the other: each got the init of
\* connect() and the init of the endpoint, and a presence_join for each later user
Registered(n) ==
    /\ active_connections = [i \in 1..n |-> i]
    /\ dict_id = 1
    /\ document_states = <<DefaultState>>
    /\ user_cursors = <<NoCursors>>
    /\ heartbeat_timestamps = <<[u \in Users |-> IF u <= n THEN <<0>> ELSE <<>>]>>
    /\ user_sessions = [u \in Users |-> IF u <= n THEN <<Session(0)>> ELSE <<>>]
    /\ clock = 0
    /\ db = [content |-> <<>>, version |-> 1]
    /\ task = [u \in Users |-> IF u <= n THEN At("recv") ELSE Off]
    /\ outbox = [u \in Users |->
                   IF u <= n
                   THEN <<Msg("init", 0, <<DefaultState>>),
                          Msg("init", u, <<to_dict(NewCRDT(ToString(u)))>>)>>
                        \o [j \in 1..(n - u) |-> Msg("presence_join", u + j, <<>>)]
                   ELSE <<>>]
    /\ seen = [u \in Users |-> <<>>]
    /\ writes = <<>>
    /\ fanout = [u \in Users |-> <<>>]
    /\ missed = {}

\* ... and the clients of all of them are there, with nothing sent yet
Joined(n) ==
    /\ Registered(n)
    /\ sock = [u \in Users |-> IF u <= n THEN "open" ELSE "none"]
    /\ inbox = [u \in Users |-> <<>>]

\* ... and the client of the last of them has just closed its socket
JoinedAndClosed(n) ==
    /\ Registered(n)
    /\ sock = [u \in Users |-> IF u < n THEN "open" ELSE IF u = n THEN "closed" ELSE "none"]
    /\ inbox = [u \in Users |-> IF u = n THEN <<ClientClosed>> ELSE <<>>]

\* messages of every kind in a session of four participants
FanoutNext ==
    \/ \E u \in Users : BroadcastStep(u)
    \/ \E u \in Users : ClientSend(u)
    \/ \E u \in Users : ClientSendCursor(u)
    \/ \E u \in Users : ClientSendSync(u)
    \/ \E u \in Users : ClientSendMalformed(u)
    \/ \E u \in Users : ClientClose(u)
    \/ \E u \in Users : ReceiveUpdate(u)
    \/ \E u \in Users : ReceiveCursor(u)
    \/ \E u \in Users : ReceiveSync(u)
    \/ \E u \in Users : ReceiveIgnored(u)
    \/ \E u \in Users : ReceiveNotAnObject(u)
    \/ \E u \in Users : ReceiveDisconnect(u)
    \/ \E u \in Users : EndpointFinally(u)

\* two participants that edit, leave, come back and ask for the state
LifecycleNext ==
    \/ \E u \in Users : Reconnect(u)
    \/ \E u \in Users : JoinBroadcast(u)
    \/ \E u \in Users : BroadcastStep(u)
    \/ \E u \in Users : ClientSend(u)
    \/ \E u \in Users : ClientSendSync(u)
    \/ \E u \in Users : ClientClose(u)
    \/ \E u \in Users : ReceiveUpdate(u)
    \/ \E u \in Users : ReceiveSync(u)
    \/ \E u \in Users : ReceiveDisconnect(u)
    \/ \E u \in Users : EndpointFinally(u)

\* presence: cursors, heartbeats, updates, lapses of time and sweeps
PresenceNext ==
    \/ Elapse
    \/ \E u \in Users : Sweep(u)
    \/ \E u \in Users : BroadcastStep(u)
    \/ \E u \in Users : ClientSend(u)
    \/ \E u \in Users : ClientSendCursor(u)
    \/ \E u \in Users : ClientSendHeartbeat(u)
    \/ \E u \in Users : ClientClose(u)
    \/ \E u \in Users : ReceiveUpdate(u)
    \/ \E u \in Users : ReceiveCursor(u)
    \/ \E u \in Users : ReceiveHeartbeat(u)
    \/ \E u \in Users : ReceiveDisconnect(u)
    \/ \E u \in Users : EndpointFinally(u)

\* loading: updates of either kind, the participants leave and come back
LoadNext ==
    \/ \E u \in Users : Reconnect(u)
    \/ \E u \in Users : JoinBroadcast(u)
    \/ \E u \in Users : BroadcastStep(u)
    \/ \E u \in Users : ClientSend(u)
    \/ \E u \in Users : ClientSendTyped(u)
    \/ \E u \in Users : ClientClose(u)
    \/ \E u \in Users : ReceiveUpdate(u)
    \/ \E u \in Users : ReceiveDisconnect(u)
    \/ \E u \in Users : EndpointFinally(u)

\* persistence: updates, the ticks of periodic_save and its cancellation
PersistNext ==
    \/ \E u \in Users : PeriodicSave(u)
    \/ \E u \in Users : BroadcastStep(u)
    \/ \E u \in Users : ClientSend(u)
    \/ \E u \in Users : ClientClose(u)
    \/ \E u \in Users : ReceiveUpdate(u)
    \/ \E u \in Users : ReceiveDisconnect(u)
    \/ \E u \in Users : EndpointFinally(u)

\* ------------------------------- websocket.py: the manager, two documents
\* The ConnectionManager object with every document it holds. Here every send
\* succeeds: the sockets of the running endpoints are open.

Docs == {1, 2}
Members == {1, 2}

\* the Document rows before anything was written
NoContent == [d \in Docs |-> [content |-> <<>>, version |-> 1]]

\* a dict keyed by user_id that holds nothing
NoEntries == [u \in Members |-> <<>>]

\* ConnectionManager.__init__
NewManager ==
    [active_connections |-> [d \in Docs |-> <<>>],
     user_cursors |-> [d \in Docs |-> <<>>],
     heartbeat_timestamps |-> [d \in Docs |-> <<>>],
     document_states |-> [d \in Docs |-> <<>>],
     user_sessions |-> [u \in Members |-> <<>>]]

ManagerInit ==
    /\ manager = NewManager
    /\ endpoints = [e \in Docs \X Members |-> "off"]
    /\ documents = NoContent

\* the keys of active_connections[d]
Keys(m, d) ==
    IF m.active_connections[d] = <<>> THEN {} ELSE m.active_connections[d][1]

\* the user_sessions entry connect() makes; of its keys the model keeps
\* document_id and last_activity
SessionOn(d, t) == [document_id |-> d, last_activity |-> t]

\* ConnectionManager.connect, up to its first send: the manager afterwards
manager_connect(m, rows, d, u, t) ==
    LET fresh == m.active_connections[d] = <<>>
        loaded == IF rows[d].content # <<>> THEN rows[d].content ELSE <<DefaultState>>
        hb == IF fresh THEN NoEntries ELSE m.heartbeat_timestamps[d][1]
    IN [active_connections |->
            [m.active_connections EXCEPT ![d] = <<Keys(m, d) \cup {u}>>],
        user_cursors |->
            IF fresh THEN [m.user_cursors EXCEPT ![d] = <<NoEntries>>] ELSE m.user_cursors,
        heartbeat_timestamps |->
            [m.heartbeat_timestamps EXCEPT ![d] = <<[hb EXCEPT ![u] = <<t>>]>>],
        document_states |->
            IF fresh THEN [m.document_states EXCEPT ![d] = loaded] ELSE m.document_states,
        user_sessions |-> [m.user_sessions EXCEPT ![u] = <<SessionOn(d, t)>>]]

\* ConnectionManager.disconnect: the manager afterwards
manager_disconnect(m, d, u) ==
    IF m.active_connections[d] = <<>> THEN m
    ELSE LET rest == Keys(m, d) \ {u}
         IN [active_connections |->
                 [m.active_connections EXCEPT ![d] = IF rest = {} THEN <<>> ELSE <<rest>>],
             user_cursors |->
                 [m.user_cursors EXCEPT ![d] =
                     IF rest = {} THEN <<>> ELSE <<[m.user_cursors[d][1] EXCEPT ![u] = <<>>]>>],
             heartbeat_timestamps |->
                 [m.heartbeat_timestamps EXCEPT ![d] =
                     IF rest = {} THEN <<>>
                     ELSE <<[m.heartbeat_timestamps[d][1] EXCEPT ![u] = <<>>]>>],
             document_states |->
                 IF rest = {} THEN [m.document_states EXCEPT ![d] = <<>>]
                 ELSE m.document_states,
             user_sessions |-> [m.user_sessions EXCEPT ![u] = <<>>]]

\* user_sessions[user_id]['last_activity'] = datetime.utcnow(), for a user with a session
manager_touch(m, u, t) ==
    IF m.user_sessions[u] = <<>> THEN m
    ELSE [m EXCEPT !.user_sessions[u] = <<[m.user_sessions[u][1] EXCEPT !.last_activity = t]>>]

\* ConnectionManager.update_cursor: the manager afterwards
manager_update_cursor(m, d, u, data, t) ==
    LET cur == IF m.user_cursors[d] = <<>> THEN NoEntries ELSE m.user_cursors[d][1]
    IN manager_touch([m EXCEPT !.user_cursors[d] = <<[cur EXCEPT ![u] = <<data>>]>>], u, t)

\* ConnectionManager.update_heartbeat: the manager afterwards
manager_update_heartbeat(m, d, u, t) ==
    IF m.heartbeat_timestamps[d] = <<>> THEN m
    ELSE manager_touch([m EXCEPT !.heartbeat_timestamps[d] =
                            <<[m.heartbeat_timestamps[d][1] EXCEPT ![u] = <<t>>]>>], u, t)

\* ConnectionManager.update_document_state: the manager afterwards
manager_update_document_state(m, d, state) ==
    [m EXCEPT !.document_states[d] = <<state>>]

\* cleanup_inactive_users: the users it collects
manager_inactive_users(m, t) ==
    {u \in Members : m.user_sessions[u] # <<>>
                     /\ t - m.user_sessions[u][1].last_activity > 5}

\* cleanup_inactive_users: disconnect(session['document_id'], user_id) for each
\* of the users collected, one after the other
RECURSIVE manager_disconnect_all(_, _, _)
manager_disconnect_all(m, ses, S) ==
    IF S = {} THEN m
    ELSE LET u == Min(S)
         IN manager_disconnect_all(manager_disconnect(m, ses[u][1].document_id, u),
                                   ses, S \ {u})

\* ConnectionManager.cleanup_inactive_users: the manager afterwards
manager_cleanup_inactive_users(m, t) ==
    manager_disconnect_all(m, m.user_sessions, manager_inactive_users(m, t))

\* what the websocket specifications hold of one document stays as it is
OneDocumentIdle ==
    UNCHANGED <<active_connections, dict_id, document_states, user_cursors,
                heartbeat_timestamps, user_sessions, db, sock, task, inbox, outbox,
                seen, writes, fanout, missed, crdtVars, appVars>>

\* the events of this specification are counted down from the bound
Spend ==
    /\ left > 0
    /\ left' = left - 1

\* websocket_endpoint of u on d: connect(), then the endpoint's tasks run
EndpointConnect(d, u) ==
    /\ Spend
    /\ endpoints[<<d, u>>] = "off"
    /\ manager' = manager_connect(manager, documents, d, u, clock)
    /\ endpoints' = [endpoints EXCEPT ![<<d, u>>] = "recv"]
    /\ UNCHANGED <<documents, clock>>
    /\ OneDocumentIdle

\* process_messages of u on d: a cursor message
EndpointCursor(d, u) ==
    /\ Spend
    /\ endpoints[<<d, u>>] = "recv"
    /\ \E data \in CursorData :
          manager' = manager_update_cursor(manager, d, u, data, clock)
    /\ UNCHANGED <<endpoints, documents, clock>>
    /\ OneDocumentIdle

\* process_messages of u on d: a heartbeat message
EndpointHeartbeat(d, u) ==
    /\ Spend
    /\ endpoints[<<d, u>>] = "recv"
    /\ manager' = manager_update_heartbeat(manager, d, u, clock)
    /\ UNCHANGED <<endpoints, documents, clock>>
    /\ OneDocumentIdle

\* process_messages of u on d: an update; the write succeeds or raises
EndpointUpdate(d, u) ==
    /\ Spend
    /\ endpoints[<<d, u>>] = "recv"
    /\ \E text \in Texts, ok \in BOOLEAN :
          LET new == [text |-> text, version |-> 0]
              row == IF ok THEN save_document_state(documents[d], new) ELSE documents[d]
              content == IF ok THEN row.content[1] ELSE new
          IN /\ manager' = manager_update_document_state(manager, d, content)
             /\ documents' = [documents EXCEPT ![d] = row]
    /\ UNCHANGED <<endpoints, clock>>
    /\ OneDocumentIdle

\* process_messages of u on d: the client has left and receive_json raises
\* WebSocketDisconnect
EndpointDisconnect(d, u) ==
    /\ Spend
    /\ endpoints[<<d, u>>] = "recv"
    /\ manager' = manager_disconnect(manager, d, u)
    /\ endpoints' = [endpoints EXCEPT ![<<d, u>>] = "finally"]
    /\ UNCHANGED <<documents, clock>>
    /\ OneDocumentIdle

\* the finally block of websocket_endpoint of u on d: the final flush of its
\* periodic_save, then disconnect()
EndpointExit(d, u) ==
    /\ endpoints[<<d, u>>] = "finally"
    /\ \E ok \in BOOLEAN :
          documents' = IF manager.document_states[d] # <<>> /\ ok
                       THEN [documents EXCEPT ![d] =
                                save_document_state(@, manager.document_states[d][1])]
                       ELSE documents
    /\ manager' = manager_disconnect(manager, d, u)
    /\ endpoints' = [endpoints EXCEPT ![<<d, u>>] = "off"]
    /\ UNCHANGED <<left, clock>>
    /\ OneDocumentIdle

\* time passes
TimePasses ==
    /\ Spend
    /\ \E n \in {1, MaxIdle} : clock' = clock + n
    /\ UNCHANGED mgrVars
    /\ OneDocumentIdle

\* cleanup_task of a running endpoint: one sweep
CleanupTask ==
    /\ \E e \in Docs \X Members : endpoints[e] # "off"
    /\ manager_inactive_users(manager, clock) # {}
    /\ manager' = manager_cleanup_inactive_users(manager, clock)
    /\ UNCHANGED <<endpoints, documents, left, clock>>
    /\ OneDocumentIdle

ManagerNext ==
    \/ \E d \in Docs, u \in Members : EndpointConnect(d, u)
    \/ \E d \in Docs, u \in Members : EndpointCursor(d, u)
    \/ \E d \in Docs, u \in Members : EndpointHeartbeat(d, u)
    \/ \E d \in Docs, u \in Members : EndpointUpdate(d, u)
    \/ \E d \in Docs, u \in Members : EndpointDisconnect(d, u)
    \/ \E d \in Docs, u \in Members : EndpointExit(d, u)
    \/ TimePasses
    \/ CleanupTask

\* --------------------- websocket.py: the WebSocket objects in the manager
\* active_connections[document_id][user_id] holds one WebSocket. A client may
\* open several: each runs a websocket_endpoint of its own.

Channels == {1, 2, 3}

\* a WebSocket nobody has opened
NoChannel == [document_id |-> 0, user_id |-> 0, pc |-> "none"]

ChannelInit ==
    /\ channels = [c \in Channels |-> NoChannel]
    /\ registered = [e \in Docs \X Members |-> 0]

\* the values of active_connections under the keys the manager m holds
Stored(m, reg) ==
    [e \in Docs \X Members |-> IF e[2] \in Keys(m, e[1]) THEN reg[e] ELSE 0]

\* what the endpoints of the channels leave alone
ChannelIdle ==
    UNCHANGED <<active_connections, dict_id, document_states, user_cursors,
                heartbeat_timestamps, user_sessions, db, sock, task, inbox, outbox,
                seen, writes, fanout, missed, crdtVars, endpoints, puts, handshake,
                qmanager, queued, handled, users, calls>>

\* websocket_endpoint on channel c, of u on d: connect() stores the WebSocket
\* under the key, then the endpoint's tasks run
ChannelConnect(c, d, u) ==
    /\ Spend
    /\ channels[c].pc = "none"
    /\ manager' = manager_connect(manager, documents, d, u, clock)
    /\ registered' = [Stored(manager', registered) EXCEPT ![<<d, u>>] = c]
    /\ channels' = [channels EXCEPT ![c] = [document_id |-> d, user_id |-> u, pc |-> "recv"]]
    /\ UNCHANGED <<documents, clock>>
    /\ ChannelIdle

\* process_messages on channel c: a heartbeat message
ChannelHeartbeat(c) ==
    /\ Spend
    /\ channels[c].pc = "recv"
    /\ manager' = manager_update_heartbeat(manager, channels[c].document_id,
                                           channels[c].user_id, clock)
    /\ UNCHANGED <<channels, registered, documents, clock>>
    /\ ChannelIdle

\* process_messages on channel c: the client has closed it and receive_json
\* raises WebSocketDisconnect
ChannelDisconnect(c) ==
    /\ Spend
    /\ channels[c].pc = "recv"
    /\ manager' = manager_disconnect(manager, channels[c].document_id, channels[c].user_id)
    /\ registered' = Stored(manager', registered)
    /\ channels' = [channels EXCEPT ![c].pc = "finally"]
    /\ UNCHANGED <<documents, clock>>
    /\ ChannelIdle

\* the finally block of websocket_endpoint on channel c: the final flush of its
\* periodic_save, then disconnect()
ChannelExit(c) ==
    /\ channels[c].pc = "finally"
    /\ LET d == channels[c].document_id
       IN /\ \E ok \in BOOLEAN :
                documents' = IF manager.document_states[d] # <<>> /\ ok
                             THEN [documents EXCEPT ![d] =
                                      save_document_state(@, manager.document_states[d][1])]
                             ELSE documents
          /\ manager' = manager_disconnect(manager, d, channels[c].user_id)
    /\ registered' = Stored(manager', registered)
    /\ channels' = [channels EXCEPT ![c] = NoChannel]
    /\ UNCHANGED <<left, clock>>
    /\ ChannelIdle

\* time passes
ChannelTime ==
    /\ Spend
    /\ \E n \in {1, MaxIdle} : clock' = clock + n
    /\ UNCHANGED <<mgrVars, channels, registered>>
    /\ ChannelIdle

\* cleanup_task of a running endpoint: one sweep
ChannelSweep ==
    /\ \E c \in Channels : channels[c].pc # "none"
    /\ manager_inactive_users(manager, clock) # {}
    /\ manager' = manager_cleanup_inactive_users(manager, clock)
    /\ registered' = Stored(manager', registered)
    /\ UNCHANGED <<channels, documents, left, clock>>
    /\ ChannelIdle

ChannelNext ==
    \/ \E c \in Channels, d \in Docs, u \in Members : ChannelConnect(c, d, u)
    \/ \E c \in Channels : ChannelHeartbeat(c)
    \/ \E c \in Channels : ChannelDisconnect(c)
    \/ \E c \in Channels : ChannelExit(c)
    \/ ChannelTime
    \/ ChannelSweep

\* ------------------------------------------- documents.py: update_document
\* The PUT endpoint is a plain def: each request runs in a worker thread with a
\* database session of its own, beside the event loop of the websocket endpoints.

Requests == {1, 2}

\* a request that has not arrived
NoRequest == [pc |-> "idle", version |-> 0, text |-> "", characters |-> <<>>, status |-> 0]

\* the characters a client stores with a text: those of a CRDT that holds it
StoredCharacters(text) == to_dict(InsertEach(NewCRDT("1"), TextChars(text), 0, 0)).characters

RestInit == puts = [r \in Requests |-> NoRequest]


\* update_document: db.query(Document).first() loads the row into the session of
\* the request; the content of the request is a DocumentContent
UpdateDocumentRead(r) ==
    /\ left > 0
    /\ left' = left - 1
    /\ puts[r].pc = "idle"
    /\ \E text \in Texts : \E characters \in {<<>>, StoredCharacters(text)} :
          puts' = [puts EXCEPT ![r] = [pc |-> "loaded", version |-> db.version,
                                       text |-> text, characters |-> characters,
                                       status |-> 0]]
    /\ UNCHANGED <<active_connections, dict_id, document_states, user_cursors,
                   heartbeat_timestamps, user_sessions, clock, db, sock, task, inbox,
                   outbox, seen, writes, fanout, missed, crdtVars, mgrVars, handshake,
                   qmanager, queued, handled, users, calls, channels, registered>>

\* update_document: setattr of the content, document.version += 1 on the loaded
\* row, commit; the commit succeeds (200) or raises (rollback, 500)
UpdateDocumentCommit(r) ==
    /\ puts[r].pc = "loaded"
    /\ \E ok \in BOOLEAN :
          LET version == puts[r].version + 1
              content == Committed([text |-> puts[r].text, characters |-> puts[r].characters,
                                    version |-> 0], version)
          IN /\ db' = IF ok THEN [content |-> <<content>>, version |-> version] ELSE db
             /\ puts' = [puts EXCEPT ![r] = [@ EXCEPT !.pc = "done",
                                                      !.status = IF ok THEN 200 ELSE 500]]
    /\ UNCHANGED <<active_connections, dict_id, document_states, user_cursors,
                   heartbeat_timestamps, user_sessions, clock, sock, task, inbox,
                   outbox, seen, writes, fanout, missed, left, crdtVars, mgrVars,
                   handshake, qmanager, queued, handled, users, calls, channels,
                   registered>>

\* the row is written by the websocket endpoint and by the update endpoint
VersionNext ==
    \/ \E u \in Users : ClientSend(u)
    \/ \E u \in Users : ReceiveUpdate(u)
    \/ \E u \in Users : PeriodicSave(u)
    \/ \E r \in Requests : UpdateDocumentRead(r)
    \/ \E r \in Requests : UpdateDocumentCommit(r)

\* ------------------------------ websocket.py, deps.py: the handshake
\* What a client brings to /ws/{document_id}: the token of its query string and
\* what the database holds for the user and the document. fault: the first
\* query of the endpoint raises.
Tokens == {"none", "invalid", "expired", "unknown", "user"}

Request(token, fault, exists, is_public, owner, collaborator) ==
    [token |-> token, fault |-> fault, exists |-> exists, is_public |-> is_public,
     owner |-> owner, collaborator |-> collaborator]

\* the requests, one for each way through the endpoint's checks
HandshakeRequests ==
    {Request(t, FALSE, FALSE, FALSE, FALSE, FALSE) : t \in Tokens \ {"user"}}
    \cup {Request("user", TRUE, FALSE, FALSE, FALSE, FALSE),
          Request("user", FALSE, FALSE, FALSE, FALSE, FALSE)}
    \cup {Request("user", FALSE, TRUE, p, o, c) : p \in BOOLEAN, o \in BOOLEAN, c \in BOOLEAN}

\* get_current_user_ws: raised is the exception that leaves it, user is whether
\* it returns a User (not None)
get_current_user_ws(token) ==
    CASE token = "none" -> [raised |-> "AuthenticationError", user |-> FALSE]
      [] token = "invalid" -> [raised |-> "JWTError", user |-> FALSE]
      [] token = "expired" -> [raised |-> "JWTError", user |-> FALSE]
      [] token = "unknown" -> [raised |-> "", user |-> FALSE]
      [] token = "user" -> [raised |-> "", user |-> TRUE]

\* how the server ends a handshake whose dependency raised: the exception leaves
\* the application before websocket_endpoint is called (HTTP 500 or close 1011)
ServerErrors == {500, 1011}

\* no close: the endpoint goes on to connect()
Accepted == 0

\* the endpoint's checks without the one of the collaborator row
CloseCodes_open(q) ==
    LET dep == get_current_user_ws(q.token)
    IN IF dep.raised # "" THEN ServerErrors
       ELSE IF ~dep.user THEN {4001}
       ELSE IF q.fault THEN {4000}
       ELSE IF ~q.exists THEN {4004}
       ELSE {Accepted}

\* websocket_endpoint up to connect(): the codes the handshake can end with
CloseCodes(q) ==
    LET dep == get_current_user_ws(q.token)
    IN IF dep.raised # "" THEN ServerErrors
       ELSE IF ~dep.user THEN {4001}
       ELSE IF q.fault THEN {4000}
       ELSE IF ~q.exists THEN {4004}
       ELSE IF ~q.is_public /\ ~q.owner /\ ~q.collaborator THEN {4003}
       ELSE {Accepted}

NoHandshake == [user |-> 0, request |-> Request("none", FALSE, FALSE, FALSE, FALSE, FALSE),
                code |-> Accepted]

\* a client opens the websocket: get_current_user_ws, then websocket_endpoint up
\* to connect()'s first send or to the close that refuses the client
Open(u) ==
    /\ task[u].pc = "off"
    /\ \E q \in HandshakeRequests : \E code \in CloseCodes(q) :
          /\ handshake' = [user |-> u, request |-> q, code |-> code]
          /\ IF code = Accepted
             THEN Accept(u)
             ELSE /\ left > 0
                  /\ left' = left - 1
                  /\ UNCHANGED <<active_connections, dict_id, document_states,
                                 user_cursors, heartbeat_timestamps, user_sessions, clock,
                                 db, sock, task, inbox, outbox, seen, writes, fanout,
                                 missed, crdtVars, mgrVars>>
    /\ UNCHANGED <<puts, qmanager, queued, handled, users, calls, channels, registered>>

\* clients come, are let in or refused, and those let in edit
AdmissionNext ==
    \/ \E u \in Users : Open(u)
    \/ \E u \in Users : JoinBroadcast(u)
    \/ \E u \in Users : BroadcastStep(u)
    \/ \E u \in Users : ClientSend(u)
    \/ \E u \in Users : ReceiveUpdate(u)

\* ------------------------------------------------------ core/broadcast.py
\* The queue-based ConnectionManager with one document. Every send succeeds:
\* the sockets of the users connected are open.

\* ConnectionManager.__init__: no entry for the document, no coroutine
NewQueueManager ==
    [active_connections |-> <<>>, user_sessions |-> {}, message_queues |-> <<>>,
     document_states |-> <<>>, user_cursors |-> <<>>, tasks |-> {}]

QueueInit ==
    /\ qmanager = NewQueueManager
    /\ queued = <<>>
    /\ handled = <<>>

\* the coroutine of _process_messages(document_id)
ProcessMessages == <<"_process_messages", 0>>

\* the coroutine of connect() of user u, at the await of its broadcast
Connecting(u) == <<"connect", u>>

\* the messages the callers queue
QueueMessages ==
    {[type |-> "cursor", user_id |-> u, position |-> 1] : u \in Members}
    \cup {[type |-> "sync_request", user_id |-> u, position |-> 0] : u \in Members}

\* what nothing in this specification changes
QueueIdle ==
    UNCHANGED <<active_connections, dict_id, document_states, user_cursors,
                heartbeat_timestamps, user_sessions, clock, db, sock, task, inbox,
                outbox, seen, writes, fanout, missed, crdtVars, mgrVars, puts, handshake,
                users, calls, channels, registered>>

\* ConnectionManager.connect of broadcast.py, up to the await of its broadcast:
\* the session is made if the document has none, the connection and the user's
\* session are added; _process_messages is started if the document has no queue
queue_connect(m, u) ==
    LET fresh == m.active_connections = <<>>
        queues == IF fresh THEN <<(<<>>)>> ELSE m.message_queues
        keys == (IF fresh THEN {} ELSE m.active_connections[1]) \cup {u}
    IN [active_connections |-> <<keys>>,
        user_sessions |-> m.user_sessions \cup {u},
        message_queues |-> queues,
        document_states |-> IF fresh THEN <<u>> ELSE m.document_states,
        user_cursors |-> IF fresh THEN <<NoEntries>> ELSE m.user_cursors,
        tasks |-> m.tasks \cup {Connecting(u)}
                  \cup (IF queues = <<>> THEN {ProcessMessages} ELSE {})]

\* ConnectionManager.disconnect of broadcast.py
queue_disconnect(m, u) ==
    LET keys == IF m.active_connections = <<>> THEN {} ELSE m.active_connections[1] \ {u}
        last == m.active_connections # <<>> /\ keys = {}
    IN [active_connections |-> IF m.active_connections = <<>> \/ last THEN <<>> ELSE <<keys>>,
        user_sessions |-> m.user_sessions \ {u},
        message_queues |-> IF last THEN <<>> ELSE m.message_queues,
        document_states |-> IF last THEN <<>> ELSE m.document_states,
        user_cursors |-> IF last THEN <<>> ELSE m.user_cursors,
        tasks |-> m.tasks]

\* _handle_message: a cursor message sets the cursor of its user, a sync_request
\* sends the state to its user
queue_handle(m, msg) ==
    IF msg.type = "cursor" /\ m.user_cursors # <<>>
    THEN [m EXCEPT !.user_cursors = <<[m.user_cursors[1] EXCEPT ![msg.user_id] = <<msg.position>>]>>]
    ELSE m

\* a caller connects user u
QueueConnect(u) ==
    /\ Spend
    /\ Connecting(u) \notin qmanager.tasks
    /\ u \notin (IF qmanager.active_connections = <<>> THEN {} ELSE qmanager.active_connections[1])
    /\ qmanager' = queue_connect(qmanager, u)
    /\ UNCHANGED <<queued, handled>>
    /\ QueueIdle

\* a caller disconnects user u
QueueDisconnect(u) ==
    /\ Spend
    /\ u \in qmanager.user_sessions
    /\ qmanager' = queue_disconnect(qmanager, u)
    /\ UNCHANGED <<queued, handled>>
    /\ QueueIdle

\* queue_message: the message is put on the queue of the document, if it has one
QueueMessage(msg) ==
    /\ Spend
    /\ IF qmanager.message_queues # <<>>
       THEN /\ qmanager' = [qmanager EXCEPT !.message_queues = <<Append(@[1], msg)>>]
            /\ queued' = Append(queued, msg)
       ELSE UNCHANGED <<qmanager, queued>>
    /\ UNCHANGED handled
    /\ QueueIdle

\* the event loop resumes a coroutine that can go on: connect() after its
\* broadcast, which ends; or _process_messages, which takes the next message
\* off the queue and handles it, and ends when the document has no queue
Resume(c) ==
    /\ c \in qmanager.tasks
    /\ IF c = ProcessMessages
       THEN IF qmanager.message_queues = <<>>
            THEN /\ qmanager' = [qmanager EXCEPT !.tasks = @ \ {c}]
                 /\ UNCHANGED handled
            ELSE /\ qmanager.message_queues[1] # <<>>
                 /\ LET msg == Head(qmanager.message_queues[1])
                    IN /\ qmanager' = [queue_handle(qmanager, msg)
                                          EXCEPT !.message_queues = <<Tail(@[1])>>]
                       /\ handled' = Append(handled, msg)
       ELSE /\ qmanager' = [qmanager EXCEPT !.tasks = @ \ {c}]
            /\ UNCHANGED handled
    /\ UNCHANGED <<left, queued>>
    /\ QueueIdle

QueueNext ==
    \/ \E u \in Members : QueueConnect(u)
    \/ \E u \in Members : QueueDisconnect(u)
    \/ \E msg \in QueueMessages : QueueMessage(msg)
    \/ \E c \in {ProcessMessages} \cup {Connecting(u) : u \in Members} : Resume(c)

\* the event loop runs every coroutine that can go on
QueueFair ==
    \A c \in {ProcessMessages} \cup {Connecting(u) : u \in Members} : WF_vars(Resume(c))

\* --------------------------------- api/v1/endpoints/auth.py, core/security.py
\* register and login are plain defs: each request runs in a worker thread with
\* a database session of its own.

Emails == {"a@x", "b@x"}
Usernames == {"a", "b"}
Passwords == {"p", "q"}

\* the body of a register request
UserCreate(email, username, password) ==
    [email |-> email, username |-> username, password |-> password]

\* core/config.py: the fields of Settings
Settings ==
    [API_V1_STR |-> "/api/v1", PROJECT_NAME |-> "CollabWrite",
     SECRET_KEY |-> "your-secret-key-here", ACCESS_TOKEN_EXPIRE_MINUTES |-> 11520,
     ALGORITHM |-> "HS256", POSTGRES_SERVER |-> "localhost",
     POSTGRES_USER |-> "postgres", POSTGRES_PASSWORD |-> "12345",
     POSTGRES_DB |-> "collabwrite", SQLALCHEMY_DATABASE_URI |-> "None"]

\* pwd_context.hash and pwd_context.verify: a hash verifies the password it was
\* made from and no other
get_password_hash(password) == <<"bcrypt", password>>

verify_password(plain_password, hashed_password) ==
    hashed_password = get_password_hash(plain_password)

\* models/user.py: a row of the users table
User(id, email, username, hashed_password, refresh_token) ==
    [id |-> id, email |-> email, username |-> username,
     hashed_password |-> hashed_password, refresh_token |-> refresh_token]

NoToken == "None"

\* the rows a query on the users table matches, oldest first
Matching(rows, column, value) ==
    SelectSeq(rows, LAMBDA row : row[column] = value)

\* email and username are unique=True: the insert the commit flushes raises
\* IntegrityError when a row holds either
UniqueViolation(rows, row) ==
    \/ Matching(rows, "email", row.email) # <<>>
    \/ Matching(rows, "username", row.username) # <<>>

\* jwt.encode of the claims; the expiry is the setting read from Settings
Jwt(data, type, setting) ==
    [sub |-> data.sub, type |-> type, exp |-> Settings[setting]]

AttributeError == <<"AttributeError">>

\* create_tokens: settings.X raises AttributeError when Settings has no field X
create_tokens(data) ==
    IF "ACCESS_TOKEN_EXPIRE_MINUTES" \notin DOMAIN Settings THEN AttributeError
    ELSE IF "REFRESH_TOKEN_EXPIRE_DAYS" \notin DOMAIN Settings THEN AttributeError
    ELSE <<Jwt(data, "access", "ACCESS_TOKEN_EXPIRE_MINUTES"),
           Jwt(data, "refresh", "REFRESH_TOKEN_EXPIRE_DAYS")>>

\* authenticate_user: the row of the username if the password verifies, or None
authenticate_user(rows, username, password) ==
    LET found == Matching(rows, "username", username)
    IN IF found = <<>> THEN <<>>
       ELSE IF ~verify_password(password, found[1].hashed_password) THEN <<>>
       ELSE <<found[1]>>

\* register_user, its two queries: the status it raises, 0 when it goes on;
\* first the query on the email alone
register_user_email(rows, user_in) ==
    IF Matching(rows, "email", user_in.email) # <<>> THEN 400 ELSE 0

register_user_checks(rows, user_in) ==
    IF Matching(rows, "email", user_in.email) # <<>> THEN 400
    ELSE IF Matching(rows, "username", user_in.username) # <<>> THEN 400
    ELSE 0

\* a call of the auth endpoints: op is "register" or "login", input what the
\* client sent, status and body the response (0 while the call runs)
NoCall == [pc |-> "idle", op |-> "none", input |-> <<>>, status |-> 0, body |-> <<>>]

Call(pc, op, input, status, body) ==
    [pc |-> pc, op |-> op, input |-> input, status |-> status, body |-> body]

AuthInit ==
    /\ users = <<>>
    /\ calls = [r \in Requests |-> NoCall]

\* what the auth endpoints leave alone
AuthIdle ==
    UNCHANGED <<active_connections, dict_id, document_states, user_cursors,
                heartbeat_timestamps, user_sessions, clock, db, sock, task, inbox,
                outbox, seen, writes, fanout, missed, crdtVars, mgrVars, puts,
                handshake, qmanager, queued, handled, channels, registered>>

\* register_user up to db.add: the two queries, HTTPException(400) from either
RegisterCheck(r) ==
    /\ left > 0
    /\ left' = left - 1
    /\ calls[r].pc \in {"idle", "done"}
    /\ \E email \in Emails, username \in Usernames, password \in Passwords :
          LET user_in == UserCreate(email, username, password)
              status == register_user_checks(users, user_in)
          IN calls' = [calls EXCEPT ![r] =
                          IF status # 0
                          THEN Call("done", "register", user_in, status, <<>>)
                          ELSE Call("checked", "register", user_in, 0, <<>>)]
    /\ users' = users
    /\ AuthIdle

\* register_user from db.add: the commit inserts the row, or raises
\* IntegrityError (500) when another request has taken the email or the username
RegisterCommit(r) ==
    /\ calls[r].pc = "checked"
    /\ LET user_in == calls[r].input
           row == User(Len(users) + 1, user_in.email, user_in.username,
                       get_password_hash(user_in.password), NoToken)
       IN IF UniqueViolation(users, row)
          THEN /\ users' = users
               /\ calls' = [calls EXCEPT ![r] = [@ EXCEPT !.pc = "done", !.status = 500]]
          ELSE /\ users' = Append(users, row)
               /\ calls' = [calls EXCEPT ![r] =
                               [@ EXCEPT !.pc = "done", !.status = 200, !.body = row]]
    /\ left' = left
    /\ AuthIdle

\* login_access_token: 401 when authenticate_user returns None; create_tokens
\* raises before anything is written (500); else the refresh token is stored
Login(r) ==
    /\ left > 0
    /\ left' = left - 1
    /\ calls[r].pc \in {"idle", "done"}
    /\ \E username \in Usernames, password \in Passwords :
          LET form_data == [username |-> username, password |-> password]
              user == authenticate_user(users, username, password)
              tokens == create_tokens([sub |-> user[1].username])
          IN IF user = <<>>
             THEN /\ calls' = [calls EXCEPT ![r] = Call("done", "login", form_data, 401, <<>>)]
                  /\ users' = users
             ELSE IF tokens = AttributeError
             THEN /\ calls' = [calls EXCEPT ![r] = Call("done", "login", form_data, 500, <<>>)]
                  /\ users' = users
             ELSE /\ calls' = [calls EXCEPT ![r] =
                                  Call("done", "login", form_data, 200,
                                       [access_token |-> tokens[1],
                                        refresh_token |-> tokens[2],
                                        token_type |-> "bearer",
                                        user_id |-> user[1].id])]
                  /\ users' = [users EXCEPT ![user[1].id].refresh_token = tokens[2]]
    /\ AuthIdle

AuthNext ==
    \/ \E r \in Requests : RegisterCheck(r)
    \/ \E r \in Requests : RegisterCommit(r)
    \/ \E r \in Requests : Login(r)

\* the update endpoint, the handshake, the queue-based manager and the auth
\* endpoints at the start
AppInit ==
    /\ RestInit
    /\ handshake = NoHandshake
    /\ QueueInit
    /\ AuthInit
    /\ ChannelInit

\* ------------------------------------------------------ the replicas' steps

RECURSIVE SumLen(_, _)
SumLen(f, S) ==
    IF S = {} THEN 0
    ELSE LET s == CHOOSE x \in S : TRUE IN Len(f[s]) + SumLen(f, S \ {s})

\* calls made and ticks seen so far
Ops == SumLen(log, Sites) + (now - 1)

LogEntry(op, index, result) == [op |-> op, index |-> index, result |-> result]

CRDTInit ==
    /\ crdt = [s \in Sites |-> NewCRDT(s)]
    /\ now = 1
    /\ sent = {}
    /\ log = [s \in Sites |-> <<>>]
    /\ snapshot = <<>>

Init == CRDTInit /\ WSInit /\ ManagerInit /\ AppInit

\* time passes between two readings of the clock
Tick ==
    /\ Ops < MaxOps
    /\ now' = now + 1
    /\ UNCHANGED <<crdt, sent, log, snapshot, wsVars, mgrVars, appVars>>

\* Put a Character on the wire
Wire(s, char) == sent \cup {[from |-> s, char |-> char]}

\* site s calls insert(index, value) and broadcasts the Character it returns
LocalInsert(s) ==
    /\ Ops < MaxOps
    /\ \E index \in 0..Len(crdt[s].characters), value \in Values :
        /\ crdt' = [crdt EXCEPT ![s] = insert(crdt[s], index, value, now)]
        /\ sent' = Wire(s, InsertedChar(crdt[s], index, value, now))
        /\ log' = [log EXCEPT ![s] =
                     Append(@, LogEntry("insert", index, <<InsertedChar(crdt[s], index, value, now)>>))]
    /\ UNCHANGED <<now, snapshot, wsVars, mgrVars, appVars>>

\* site s calls delete(index) and broadcasts the Character it returns, if any
LocalDelete(s) ==
    /\ Ops < MaxOps
    /\ \E index \in -1..Len(crdt[s].characters) :
        /\ crdt' = [crdt EXCEPT ![s] = delete(crdt[s], index)]
        /\ sent' = IF DeleteResult(crdt[s], index) = <<>> THEN sent
                   ELSE Wire(s, DeleteResult(crdt[s], index)[1])
        /\ log' = [log EXCEPT ![s] = Append(@, LogEntry("delete", index, DeleteResult(crdt[s], index)))]
    /\ UNCHANGED <<now, snapshot, wsVars, mgrVars, appVars>>

\* site s receives a Character another site sent (the wire may deliver it again)
ApplyRemote(s) ==
    /\ Ops < MaxOps
    /\ \E m \in sent :
        /\ m.from # s
        /\ crdt' = [crdt EXCEPT ![s] = apply_remote_operation(crdt[s], m.char)]
        /\ log' = [log EXCEPT ![s] =
                     Append(@, LogEntry("apply", FindInsertIndex(crdt[s].characters, m.char, 0), <<m.char>>))]
    /\ UNCHANGED <<now, sent, snapshot, wsVars, mgrVars, appVars>>

\* the document of site s is stored: to_dict()
Save(s) ==
    /\ Ops < MaxOps
    /\ snapshot' = <<to_dict(crdt[s])>>
    /\ log' = [log EXCEPT ![s] = Append(@, LogEntry("to_dict", 0, <<>>))]
    /\ UNCHANGED <<crdt, now, sent, wsVars, mgrVars, appVars>>

\* site s starts again from the stored document: from_dict(data, site_id)
Load(s) ==
    /\ Ops < MaxOps
    /\ snapshot # <<>>
    /\ crdt' = [crdt EXCEPT ![s] = from_dict(snapshot[1], s)]
    /\ log' = [log EXCEPT ![s] = Append(@, LogEntry("from_dict", 0, <<>>))]
    /\ UNCHANGED <<now, sent, snapshot, wsVars, mgrVars, appVars>>

Next ==
    \/ Tick
    \/ \E s \in Sites : Save(s)
    \/ \E s \in Sites : Load(s)
    \/ \E s \in Sites : LocalInsert(s)
    \/ \E s \in Sites : LocalDelete(s)
    \/ \E s \in Sites : ApplyRemote(s)

Spec == Init /\ [][Next]_vars

SpecWS == Init /\ [][WSNext]_vars

InitFanout == CRDTInit /\ Joined(4) /\ left = MaxDeltas /\ ManagerInit /\ AppInit

SpecFanout == InitFanout /\ [][FanoutNext]_vars

InitLifecycle == CRDTInit /\ JoinedAndClosed(2) /\ left = MaxSteps /\ ManagerInit /\ AppInit

SpecLifecycle == InitLifecycle /\ [][LifecycleNext]_vars

InitPresence == CRDTInit /\ Joined(2) /\ left = MaxTurns /\ ManagerInit /\ AppInit

SpecPresence == InitPresence /\ [][PresenceNext]_vars

InitLoad == CRDTInit /\ Joined(2) /\ left = MaxLoads /\ ManagerInit /\ AppInit

SpecLoad == InitLoad /\ [][LoadNext]_vars

InitPersist == CRDTInit /\ Joined(2) /\ left = MaxSaves /\ ManagerInit /\ AppInit

SpecPersist == InitPersist /\ [][PersistNext]_vars

SpecManager == Init /\ [][ManagerNext]_vars

\* the event loop runs every coroutine that can go on: the receive loops, the
\* broadcasts and the finally blocks are not held back for ever
ServerFair ==
    \A u \in Users :
        /\ WF_vars(ReceiveUpdate(u))
        /\ WF_vars(ReceiveDisconnect(u))
        /\ WF_vars(BroadcastStep(u))
        /\ WF_vars(EndpointFinally(u))

SpecTeardown == InitPersist /\ [][PersistNext]_vars /\ ServerFair

SpecQueue == Init /\ [][QueueNext]_vars /\ QueueFair

InitVersion == CRDTInit /\ Joined(1) /\ left = MaxCalls /\ ManagerInit /\ AppInit

SpecVersion == InitVersion /\ [][VersionNext]_vars

SpecChannels == Init /\ [][ChannelNext]_vars

InitAuth == CRDTInit /\ Joined(1) /\ left = MaxRequests /\ ManagerInit /\ AppInit

SpecAuth == InitAuth /\ [][AuthNext]_vars

InitAdmission == CRDTInit /\ Joined(1) /\ left = MaxOpens /\ ManagerInit /\ AppInit

SpecAdmission == InitAdmission /\ [][AdmissionNext]_vars

\* ------------------------------------------------------------ vocabulary

Last(s) == s[Len(s)]

\* the Characters replica s holds
CharsOf(s) == {crdt[s].characters[i] : i \in 1..Len(crdt[s].characters)}

\* every Position some replica holds or the wire carries
KnownPositions ==
    UNION {{c.position : c \in CharsOf(s)} : s \in Sites} \cup {m.char.position : m \in sent}

Before(p, q) == compare_positions(p, q) = -1

\* every call made on replica s was one of ops
OnlyCalls(s, ops) == \A i \in 1..Len(log[s]) : log[s][i].op \in ops

\* the Characters delivered to replica s
Delivered(s) == {log[s][i].result[1] : i \in {j \in 1..Len(log[s]) : log[s][j].op = "apply"}}

\* the tombstones of a CRDT object
Tombstones(c) == {c.characters[i] : i \in {j \in 1..Len(c.characters) : c.characters[j].deleted}}

\* site a called insert(0, "X") and site b insert(0, "Y"), each on an empty replica,
\* and each then applied the Character the other returned
ConcurrentFirstInserts(a, b) ==
    /\ a # b
    /\ Len(log[a]) = 2 /\ Len(log[b]) = 2
    /\ log[a][1].op = "insert" /\ log[a][1].index = 0 /\ log[a][1].result[1].value = "X"
    /\ log[b][1].op = "insert" /\ log[b][1].index = 0 /\ log[b][1].result[1].value = "Y"
    /\ log[a][2].op = "apply" /\ log[a][2].result = log[b][1].result
    /\ log[b][2].op = "apply" /\ log[b][2].result = log[a][1].result

\* filter of get_text
NotDeleted(c) == ~c.deleted

\* no update waits to be received and no broadcast is under way
Quiescent ==
    /\ \A u \in Users : inbox[u] = <<>>
    /\ \A u \in Users : task[u].pc \in {"off", "recv"}

\* the users registered with an open socket whose process_messages loop runs
Participants == {u \in KeySet(active_connections) : task[u].pc = "recv" /\ sock[u] = "open"}

\* the call this step makes on replica s, if it makes one
Called(s, op) == log'[s] # log[s] /\ Last(log'[s]).op = op

\* seq without its k-th element
Without(seq, k) == SubSeq(seq, 1, k - 1) \o SubSeq(seq, k + 1, Len(seq))

\* new holds the Characters of old in the same order, none of them un-deleted
Kept(old, new) ==
    /\ Len(new) = Len(old)
    /\ \A i \in 1..Len(old) :
         /\ new[i].value = old[i].value
         /\ new[i].position = old[i].position
         /\ old[i].deleted => new[i].deleted

\* the update and cursor messages sent over the socket of v
Deltas(v) ==
    {outbox[v][i] : i \in {j \in 1..Len(outbox[v]) : outbox[v][j].type \in {"update", "cursor"}}}

\* where message m stands in seq from position n + 1 on
Places(seq, n, m) == {i \in (n + 1)..Len(seq) : seq[i].type = m.type /\ seq[i] = m}

CountSince(seq, n, m) == Cardinality(Places(seq, n, m))

Once(v, m) == CountSince(outbox[v], 0, m) = 1

IndexOf(v, m) == CHOOSE i \in Places(outbox[v], 0, m) : TRUE

\* this step ends the broadcast of the last update process_messages accepted from p
BroadcastEnds(p) ==
    /\ fanout'[p] # <<>>
    /\ task'[p].pc # "bcast"
    /\ \/ task[p].pc = "bcast" /\ task[p].msg.type = "update"
       \/ fanout'[p] # fanout[p]

\* the update process_messages accepted last, as the client sent it
UpdateWrites == {i \in 1..Len(writes) : writes[i].by = "update"}

HasUpdate == UpdateWrites # {}

LastUpdate == writes[CHOOSE i \in UpdateWrites : \A j \in UpdateWrites : j <= i].state

\* no participant is registered and every endpoint is over
Idle == active_connections = <<>> /\ \A u \in Users : task[u].pc = "off"

\* this step is process_messages of u taking the frame at the head of its inbox
Handles(u) ==
    /\ task[u].pc = "recv"
    /\ inbox[u] # <<>>
    /\ inbox'[u] = Tail(inbox[u])

\* the frames the failure policy calls malformed or partially specified
Malformed(frame) ==
    \/ frame.type \in {"<array>", "unknown"}
    \/ frame.type \in {"update", "cursor"} /\ frame.content = <<>>

\* this step is a step of the endpoint of u
Acts(u) == task'[u] # task[u]

\* this step of u is, or goes on with, the broadcast of an update or a cursor
Broadcasts(u) ==
    /\ Acts(u)
    /\ \/ task[u].pc = "bcast"
       \/ Handles(u) /\ Head(inbox[u]).type \in {"update", "cursor"}
                     /\ Head(inbox[u]).content # <<>>

\* in this step of u a send to v raises and v is taken out of the registry
SendFails(u, v) ==
    /\ u # v
    /\ Broadcasts(u)
    /\ sock[v] = "closed"
    /\ v \in KeySet(active_connections)
    /\ v \notin KeySet(active_connections')

\* maps f and g (an entry of user_cursors or heartbeat_timestamps, or
\* user_sessions) hold the same for every user but p
SameButFor(f, g, p) == \A v \in Users \ {p} : f[v] = g[v]

\* the document's map before and after this step is the same for every user but p
EntrySameButFor(e, f, p) ==
    \/ e = <<>> /\ f = <<>>
    \/ e = <<>> /\ f # <<>> /\ SameButFor(NoCursors, f[1], p)
    \/ e # <<>> /\ f # <<>> /\ SameButFor(e[1], f[1], p)

\* the age of the last activity of u, in minutes
Age(u) == clock - user_sessions[u][1].last_activity

\* this step is process_messages of p taking an update it accepts
HandlesUpdate(p) ==
    /\ Handles(p)
    /\ Head(inbox[p]).type = "update"
    /\ Head(inbox[p]).content # <<>>

\* this step makes one more call of save_document_state, of the kind given
Writes(by) ==
    /\ Len(writes') = Len(writes) + 1
    /\ Last(writes').by = by

\* this step is a tick of some periodic_save
Ticks ==
    /\ left' = left - 1
    /\ inbox' = inbox
    /\ sock' = sock
    /\ clock' = clock

\* this step is the finally block of the endpoint of u, which cancels its periodic_save
Cancels(u) == task[u].pc = "finally" /\ task'[u].pc = "off"

\* contents a and b are the same but for the version the commit stamps on them
SameContent(a, b) == [a EXCEPT !.version = 0] = [b EXCEPT !.version = 0]

\* the registered users other than p whose socket is open
OpenOthers(p) == {v \in KeySet(active_connections) \ {p} : sock[v] = "open"}

\* this step is connect() of u, up to its first send
Connects(u) == task[u].pc = "off" /\ task'[u].pc = "joined"

\* ------------------------------------------------------------------ claims

\* C1: two replicas that start empty and are delivered the same set of
\* Characters through apply_remote_operation, in any order and with any
\* Character possibly delivered more than once, hold the same character
\* sequence and the same text.
C1_Convergence ==
    \A a, b \in Sites :
        (/\ OnlyCalls(a, {"apply"})
         /\ OnlyCalls(b, {"apply"})
         /\ Delivered(a) = Delivered(b))
        => /\ crdt[a].characters = crdt[b].characters
           /\ get_text(crdt[a]) = get_text(crdt[b])

\* C2: site a inserts "X" at index 0 and site b concurrently inserts "Y" at
\* index 0, both on an empty replica; once each has applied the other's
\* Character, both replicas hold the two characters in the same order.
C2_SameOrder ==
    \A a, b \in Sites :
        ConcurrentFirstInserts(a, b)
        => /\ crdt[a].characters = crdt[b].characters
           /\ get_text(crdt[a]) = get_text(crdt[b])
           /\ get_text(crdt[a]) \in {<<"X", "Y">>, <<"Y", "X">>}

\* C3: once every update is handled and every broadcast is through, the text
\* of the last update each participant sent or received is the text of the
\* server's in-memory document state.
C3_OneFinalState ==
    Quiescent =>
        \A u \in Participants :
            seen[u] # <<>> =>
                /\ document_states # <<>>
                /\ seen[u][1].text = document_states[1].text

\* C4: apply_remote_operation of a Character whose Position is already in
\* the sequence adds no element: length and order stay, and the element with
\* that Position gets deleted = (old flag OR incoming flag).
C4_ApplyExistingIsMerge ==
    [][\A s \in Sites :
        (/\ log'[s] # log[s]
         /\ Last(log'[s]).op = "apply"
         /\ \E i \in 1..Len(crdt[s].characters) :
               crdt[s].characters[i].position = Last(log'[s]).result[1].position)
        => /\ Len(crdt'[s].characters) = Len(crdt[s].characters)
           /\ \A i \in 1..Len(crdt[s].characters) :
                /\ crdt'[s].characters[i].position = crdt[s].characters[i].position
                /\ crdt'[s].characters[i].value = crdt[s].characters[i].value
                /\ crdt'[s].characters[i].deleted =
                     (\/ crdt[s].characters[i].deleted
                      \/ /\ crdt[s].characters[i].position = Last(log'[s]).result[1].position
                         /\ Last(log'[s]).result[1].deleted)]_vars

\* C5: compare_positions is a strict total order on the Positions the
\* program produces: of two distinct Positions exactly one is before the
\* other, and before is transitive.
C5_StrictTotalOrder ==
    /\ \A p, q \in KnownPositions : p # q => (Before(p, q) # Before(q, p))
    /\ \A p, q, r \in KnownPositions :
         (p # q /\ q # r /\ p # r /\ Before(p, q) /\ Before(q, r)) => Before(p, r)

\* C6: after any sequence of insert, delete and apply_remote_operation the
\* character list is strictly ascending under compare_positions, and
\* get_text() is the values of the non-deleted characters in list order.
C6_SortedAndText ==
    \A s \in Sites :
        OnlyCalls(s, {"insert", "delete", "apply"})
        => /\ \A i \in 1..(Len(crdt[s].characters) - 1) :
                Before(crdt[s].characters[i].position, crdt[s].characters[i + 1].position)
           /\ get_text(crdt[s]) =
                [i \in 1..Len(SelectSeq(crdt[s].characters, NotDeleted)) |->
                    SelectSeq(crdt[s].characters, NotDeleted)[i].value]

\* C7: after any sequence of local inserts at one site no two Characters of
\* its sequence carry the same (site id, counter) pair.
C7_NoCollision ==
    \A s \in Sites :
        OnlyCalls(s, {"insert"})
        => \A i, j \in 1..Len(crdt[s].characters) :
              i # j => ~(/\ crdt[s].characters[i].position.site_id
                              = crdt[s].characters[j].position.site_id
                         /\ crdt[s].characters[i].position.counter
                              = crdt[s].characters[j].position.counter)

\* C8: insert at an index strictly inside the sequence gives the new
\* Character a counter strictly between those of its two neighbours.
C8_StrictlyBetween ==
    \A s \in Sites :
        (/\ log[s] # <<>>
         /\ Last(log[s]).op = "insert"
         /\ 0 < Last(log[s]).index
         /\ Last(log[s]).index < Len(crdt[s].characters) - 1)
        => LET i == Last(log[s]).index + 1 IN
           /\ crdt[s].characters[i - 1].position.counter < crdt[s].characters[i].position.counter
           /\ crdt[s].characters[i].position.counter < crdt[s].characters[i + 1].position.counter

\* C9: of two Positions with different counters the one with the smaller
\* counter orders first, whatever the site ids and timestamps; with equal
\* counters the order depends on the site ids and not on the timestamps.
C9_CounterFirst ==
    /\ \A p, q \in KnownPositions : p.counter < q.counter => Before(p, q)
    /\ \A p, q, p2, q2 \in KnownPositions :
         (/\ p.counter = q.counter /\ p.site_id # q.site_id
          /\ p2.counter = p.counter /\ p2.site_id = p.site_id
          /\ q2.counter = q.counter /\ q2.site_id = q.site_id)
         => (Before(p, q) <=> Before(p2, q2))

\* C10: from_dict(to_dict(seq)) holds the same Characters in the same order,
\* each with its value, Position and deleted flag, tombstones included, so
\* the text and the set of tombstones survive the round trip.
C10_RoundTrip ==
    \A s \in Sites :
        LET back == from_dict(to_dict(crdt[s]), s) IN
        /\ back.characters = crdt[s].characters
        /\ get_text(back) = get_text(crdt[s])
        /\ Tombstones(back) = Tombstones(crdt[s])

\* a replica was restored from the stored document of another and holds a tombstone
C10_Witness ==
    \E s, t \in Sites :
        /\ s # t
        /\ log[t] # <<>>
        /\ Last(log[t]).op = "from_dict"
        /\ crdt[t].characters = crdt[s].characters
        /\ Tombstones(crdt[t]) # {}

\* C11: delete(index) on a Character that is already deleted, and
\* apply_remote_operation of a deleted Character the replica already holds as
\* deleted, leave the sequence as it was (so the text too).
C11_DeleteDeletedIsNoOp ==
    [][\A s \in Sites :
        /\ (/\ Called(s, "delete")
            /\ Last(log'[s]).result # <<>>
            /\ crdt[s].characters[Last(log'[s]).index + 1].deleted)
           => /\ crdt'[s].characters = crdt[s].characters
              /\ get_text(crdt'[s]) = get_text(crdt[s])
        /\ (/\ Called(s, "apply")
            /\ Last(log'[s]).result[1].deleted
            /\ Last(log'[s]).result[1] \in CharsOf(s))
           => /\ crdt'[s].characters = crdt[s].characters
              /\ get_text(crdt'[s]) = get_text(crdt[s])]_vars

\* C12: under insert, delete and apply_remote_operation the stored Characters
\* stay, in their order, and none goes from deleted to not deleted: the
\* sequence afterwards is the one before, possibly with flags raised, or that
\* with one Character added.
C12_TombstonesStay ==
    [][\A s \in Sites :
        (Called(s, "insert") \/ Called(s, "delete") \/ Called(s, "apply"))
        => \/ Kept(crdt[s].characters, crdt'[s].characters)
           \/ \E k \in 1..Len(crdt'[s].characters) :
                 Kept(crdt[s].characters, Without(crdt'[s].characters, k))]_vars

\* a replica holds a tombstone and was called again after the delete
C12_Witness ==
    \E s \in Sites :
        /\ Tombstones(crdt[s]) # {}
        /\ \E i \in 1..Len(log[s]) :
             /\ log[s][i].op = "delete"
             /\ log[s][i].result # <<>>
             /\ i < Len(log[s])
             /\ Last(log[s]).op \in {"insert", "delete", "apply"}

\* C13: delete(index) with index < 0 or index >= the number of Characters
\* returns None and leaves the replica as it was.
C13_DeleteOutOfRange ==
    [][\A s \in Sites :
        (/\ Called(s, "delete")
         /\ \/ Last(log'[s]).index < 0
            \/ Last(log'[s]).index >= Len(crdt[s].characters))
        => /\ Last(log'[s]).result = <<>>
           /\ crdt'[s] = crdt[s]]_vars

\* delete(-1) and delete(len) were called on a replica that holds Characters
C13_Witness ==
    \E s, t \in Sites :
        /\ crdt[s].characters # <<>> /\ log[s] # <<>>
        /\ Last(log[s]).op = "delete" /\ Last(log[s]).index = -1
        /\ crdt[t].characters # <<>> /\ log[t] # <<>>
        /\ Last(log[t]).op = "delete" /\ Last(log[t]).index = Len(crdt[t].characters)

\* C14: any two different deltas (update or cursor) that two participants both
\* received once reached the two in the same relative order.
C14_SameDeltaOrder ==
    \A v, w \in Users :
        \A m1, m2 \in Deltas(v) \cap Deltas(w) :
            (/\ m1 # m2
             /\ Once(v, m1) /\ Once(v, m2) /\ Once(w, m1) /\ Once(w, m2))
            => ((IndexOf(v, m1) < IndexOf(v, m2)) <=> (IndexOf(w, m1) < IndexOf(w, m2)))

\* C15: an accepted update of p replaces the in-memory state, and when its
\* broadcast is over every other participant that was connected when it was
\* accepted, and still is, has been sent it exactly once; p is not sent it.
C15_UpdateToAllOthers ==
    [][\A p \in Users :
        /\ fanout'[p] # fanout[p]
           => document_states' \in {fanout'[p][1].msg.content, <<>>}
        /\ BroadcastEnds(p)
           => /\ \A v \in DOMAIN fanout'[p][1].at :
                    (sock'[v] = "open" /\ v \in KeySet(active_connections'))
                    => CountSince(outbox'[v], fanout'[p][1].at[v], fanout'[p][1].msg) = 1
              /\ CountSince(outbox'[p], 0, fanout'[p][1].msg) = 0]_vars

\* C16: once the last participant has left and its endpoint is over, the
\* persisted content is the in-memory content it left behind (the content of
\* the last accepted update), whether or not the immediate write of it failed;
\* and that is the state a session started afterwards loads.
C16_LastStateFlushed ==
    HasUpdate =>
        /\ Idle => (db.content # <<>> /\ db.content[1].text = LastUpdate.text)
        /\ \A u \in Users :
             (task[u].pc = "joined" /\ KeySet(active_connections) = {u})
             => document_states[1].text = LastUpdate.text

\* C17: the step that discards the in-memory state of the document has first
\* made the final flush of that very state.
C17_FlushBeforeDiscard ==
    [][(document_states # <<>> /\ document_states' = <<>>)
       => /\ Len(writes') = Len(writes) + 1
          /\ Last(writes').by = "flush"
          /\ Last(writes').state = document_states[1]]_vars

\* C18: a sync_response sent to a participant that was away while an update
\* was committed carries the persisted content, with the persisted version.
C18_SyncAfterReconnect ==
    [][\A u \in Users :
        (/\ u \in missed
         /\ Len(outbox'[u]) = Len(outbox[u]) + 1
         /\ Last(outbox'[u]).type = "sync_response")
        => /\ db.content # <<>>
           /\ Last(outbox'[u]).content = db.content[1]
           /\ Last(outbox'[u]).content.version = db.version]_vars

\* C19: handling a sync_request of a connected participant p sends p one
\* sync_response with the in-memory state and the cursor map, sends nothing to
\* anyone else and changes neither the document nor the registry.
C19_SyncResponse ==
    [][\A p \in Users :
        (/\ Handles(p)
         /\ Head(inbox[p]).type = "sync_request"
         /\ p \in KeySet(active_connections)
         /\ sock[p] = "open")
        => /\ Len(outbox'[p]) = Len(outbox[p]) + 1
           /\ Last(outbox'[p]).type = "sync_response"
           /\ document_states # <<>>
           /\ Last(outbox'[p]).content = document_states[1]
           /\ "cursors" \in DOMAIN Last(outbox'[p])
           /\ Last(outbox'[p]).cursors = user_cursors
           /\ \A v \in Users \ {p} : outbox'[v] = outbox[v]
           /\ UNCHANGED <<active_connections, document_states, user_cursors, db>>]_vars

\* C20: handling a malformed frame changes no document state, cursor or
\* registry entry, sends nothing to the others and leaves the sender's loop
\* running; a cursor message with data (position 0) is not dropped.
C20_MalformedDropped ==
    [][\A u \in Users :
        /\ (Handles(u) /\ Malformed(Head(inbox[u])))
           => /\ UNCHANGED <<active_connections, document_states, user_cursors, db>>
              /\ \A v \in Users \ {u} : outbox'[v] = outbox[v]
              /\ task'[u].pc = "recv"
        /\ (/\ Handles(u)
            /\ Head(inbox[u]).type = "cursor"
            /\ Head(inbox[u]).content # <<>>
            /\ \A v \in KeySet(active_connections) : sock[v] = "open")
           => /\ user_cursors' # <<>>
              /\ user_cursors'[1][u] = Head(inbox[u]).content]_vars

\* this step is a step of the endpoint of some user on document d: its connect(),
\* a message it handles, its disconnect
OperatesOn(d) ==
    \E u \in Members :
        \/ EndpointConnect(d, u)
        \/ EndpointCursor(d, u)
        \/ EndpointHeartbeat(d, u)
        \/ EndpointUpdate(d, u)
        \/ EndpointDisconnect(d, u)
        \/ EndpointExit(d, u)

\* this step is a sweep that evicts a user whose session names document d
Evicts(d) ==
    /\ CleanupTask
    /\ \E u \in manager_inactive_users(manager, clock) :
          manager.user_sessions[u][1].document_id = d

\* this step leaves what the manager holds of document e as it was: its
\* connections, cursors, heartbeats, state and the sessions of its participants
SameDocument(e) ==
    /\ manager'.active_connections[e] = manager.active_connections[e]
    /\ manager'.user_cursors[e] = manager.user_cursors[e]
    /\ manager'.heartbeat_timestamps[e] = manager.heartbeat_timestamps[e]
    /\ manager'.document_states[e] = manager.document_states[e]
    /\ \A u \in Keys(manager, e) : manager'.user_sessions[u] = manager.user_sessions[u]

\* this step commits a content the update endpoint was given
RestCommits == \E r \in Requests : puts[r].pc = "loaded" /\ puts'[r].status = 200

\* this step commits a content through save_document_state
SaveCommits == Len(writes') = Len(writes) + 1 /\ Last(writes').ok

\* request q comes with an identity and the user may have the document
MayJoin(q) ==
    /\ get_current_user_ws(q.token).user
    /\ ~q.fault
    /\ q.exists
    /\ (q.owner \/ q.is_public \/ q.collaborator)

\* this step is connect() of broadcast.py making the session of the document
CreatesSession ==
    /\ qmanager.active_connections = <<>>
    /\ qmanager'.active_connections # <<>>

\* C21: the step in which process_messages raises on a frame (one that is not
\* an object) leaves the sender's receive loop running and the registry as it
\* was: the sender's later frames are still handled, nobody is disconnected.
C21_ExceptionKeepsLoop ==
    [][\A p \in Users :
        (Handles(p) /\ Head(inbox[p]) = NotAnObject)
        => /\ task'[p].pc = "recv"
           /\ active_connections' = active_connections]_vars

\* C22: when a send to participant v fails during the broadcast of u, v and
\* only v leaves the registry and the broadcast of u goes on: u stays
\* registered and its endpoint is not on its way out.
C22_OnlyFailedChannelLeaves ==
    [][\A u, v \in Users :
        SendFails(u, v)
        => /\ KeySet(active_connections') = KeySet(active_connections) \ {v}
           /\ task'[u].pc \in {"bcast", "recv"}]_vars

\* C27: the document's in-memory entries (document state, cursor map,
\* heartbeat map) exist exactly when at least one participant is registered.
C27_EntriesIffRegistered ==
    /\ (document_states # <<>>) <=> (active_connections # <<>>)
    /\ (user_cursors # <<>>) <=> (active_connections # <<>>)
    /\ (heartbeat_timestamps # <<>>) <=> (active_connections # <<>>)

\* C29: handling a cursor or a heartbeat message of p leaves the document state
\* and the Document row as they were; a cursor changes nobody's cursor, heartbeat
\* or session but p's and is sent to the others only, a heartbeat changes
\* nobody's heartbeat or session but p's, changes no cursor and is answered to p
\* only.
C29_CursorHeartbeatFrame ==
    [][\A p \in Users :
        /\ (Handles(p) /\ Head(inbox[p]).type = "cursor" /\ Head(inbox[p]).content # <<>>)
           => /\ document_states' = document_states
              /\ db' = db
              /\ EntrySameButFor(user_cursors, user_cursors', p)
              /\ heartbeat_timestamps' = heartbeat_timestamps
              /\ SameButFor(user_sessions, user_sessions', p)
              /\ outbox'[p] = outbox[p]
        /\ (Handles(p) /\ Head(inbox[p]).type = "heartbeat")
           => /\ document_states' = document_states
              /\ db' = db
              /\ user_cursors' = user_cursors
              /\ EntrySameButFor(heartbeat_timestamps, heartbeat_timestamps', p)
              /\ SameButFor(user_sessions, user_sessions', p)
              /\ \A v \in Users \ {p} : outbox'[v] = outbox[v]]_vars

\* C30: a registered participant is online while its last activity is less than
\* 1 minute old and away while it is at least 1 and less than 5 minutes old; one
\* whose last activity is 5 minutes old or more is not in the registry that
\* cleanup_inactive_users leaves.
C30_StatusAndEviction ==
    \A u \in KeySet(active_connections) :
        user_sessions[u] # <<>> =>
            /\ Age(u) < 1 => get_user_status(user_sessions, u, clock) = "online"
            /\ (Age(u) >= 1 /\ Age(u) < 5) => get_user_status(user_sessions, u, clock) = "away"
            /\ Age(u) >= 5 => u \notin KeySet(cleanup_inactive_users.entries)

\* C23: when the write of an update fails, the in-memory state is the update's
\* content all the same, the broadcast of the update starts (and, if it is over
\* in the same step, has reached every other participant), nobody leaves the
\* registry; and a tick of periodic_save in an active session attempts a write
\* of the state that is then in memory.
C23_WriteFailureContained ==
    [][/\ \A p \in Users :
            (HandlesUpdate(p) /\ Writes("update") /\ ~Last(writes').ok)
            => /\ document_states' = <<Head(inbox[p]).content[1]>>
               /\ KeySet(active_connections') = KeySet(active_connections)
               /\ task'[p].pc \in {"bcast", "recv"}
               /\ task'[p].pc = "recv"
                  => \A v \in OpenOthers(p) :
                        Len(outbox'[v]) = Len(outbox[v]) + 1 /\ Last(outbox'[v]).type = "update"
       /\ (Ticks /\ active_connections # <<>>)
            => /\ Writes("tick")
               /\ document_states # <<>>
               /\ Last(writes').state = document_states[1]]_vars

\* C24: an update that is in some outbox has had its write attempted, and with
\* the very content it carries; and the step that handles an update whose write
\* succeeds leaves the Document row holding what is in memory.
C24_WriteBeforeBroadcast ==
    [][/\ \A v \in Users : \A i \in 1..Len(outbox'[v]) :
            outbox'[v][i].type = "update"
            => \E j \in 1..Len(writes') :
                  /\ writes'[j].by = "update"
                  /\ SameContent(writes'[j].state, outbox'[v][i].content[1])
       /\ \A p \in Users :
            (HandlesUpdate(p) /\ Writes("update") /\ Last(writes').ok)
            => /\ db'.content # <<>>
               /\ SameContent(db'.content[1], Head(inbox[p]).content[1])
               /\ document_states' # <<>> => document_states' = db'.content]_vars

\* an update whose write succeeded is in the outbox of another participant while
\* the Document row holds what is in memory
C24_Witness ==
    /\ writes # <<>>
    /\ Last(writes).by = "update"
    /\ Last(writes).ok
    /\ document_states # <<>>
    /\ db.content = document_states
    /\ \E v \in Users :
          /\ outbox[v] # <<>>
          /\ Last(outbox[v]).type = "update"
          /\ Last(outbox[v]).content = document_states

\* C25: in an active session a tick of periodic_save writes the state that is in
\* memory; the cancellation of periodic_save makes exactly one write, the final
\* flush of the state that is in memory.
C25_TickAndFinalFlush ==
    [][/\ (Ticks /\ active_connections # <<>>)
            => /\ Writes("tick")
               /\ document_states # <<>>
               /\ Last(writes').state = document_states[1]
       /\ \A u \in Users :
            Cancels(u)
            => /\ Writes("flush")
               /\ document_states # <<>>
               /\ Last(writes').state = document_states[1]]_vars

\* C26: connect() of the first participant sets the in-memory state to the
\* content of the Document row if there is one and it is well-formed, and to the
\* empty default otherwise; connect() to a document that has participants leaves
\* the in-memory state as it is.
C26_LoadOrDefault ==
    [][\A u \in Users :
        Connects(u)
        => document_states' =
             IF active_connections # <<>> THEN document_states
             ELSE IF db.content # <<>> /\ WellFormed(db.content[1]) THEN db.content
             ELSE <<DefaultState>>]_vars

\* C28: a step on document d (a connect, a message, a disconnect, an eviction of
\* a session that names d) leaves what the manager holds of every other
\* document as it was, the sessions of that document's participants included.
C28_OtherDocumentUntouched ==
    [][\A d \in Docs :
        (OperatesOn(d) \/ Evicts(d))
        => \A e \in Docs \ {d} : ~Evicts(e) => SameDocument(e)]_vars

\* C31: the version of the Document row never decreases, and it increases in
\* every step that commits a content, through save_document_state or through
\* update_document.
C31_VersionGrows ==
    [][/\ db'.version >= db.version
       /\ (RestCommits \/ SaveCommits) => db'.version > db.version]_vars

\* C32: a handshake registers its user, or sends it anything, only when an
\* identity was resolved from the token and the user is the owner, the document
\* is public or the user has a collaborator row; a handshake that is refused
\* leaves the registry and the document state as they were.
C32_OnlyAdmittedJoin ==
    [][\A u \in Users :
        Open(u)
        => /\ (active_connections' # active_connections \/ outbox'[u] # outbox[u])
              => MayJoin(handshake'.request)
           /\ handshake'.code # Accepted
              => UNCHANGED <<active_connections, document_states, user_cursors,
                             heartbeat_timestamps, user_sessions, outbox>>]_vars

\* a user that is neither the owner nor on a public document was let in on its
\* collaborator row and is registered
C32_Witness ==
    /\ handshake.user \in KeySet(active_connections)
    /\ handshake.code = Accepted
    /\ ~handshake.request.owner
    /\ ~handshake.request.is_public
    /\ handshake.request.collaborator
    /\ outbox[handshake.user] # <<>>

\* C33: a refused handshake ends with the close code of its cause: 4002 for a
\* missing, invalid or expired token, 4001 when the token names no user, 4000
\* when the endpoint raises, 4004 when the document does not exist, 4003 when
\* the user may not have it.
C33_CodeOfCause ==
    handshake.user # 0 =>
        LET q == handshake.request
        IN /\ q.token \in {"none", "invalid", "expired"} => handshake.code = 4002
           /\ q.token = "unknown" => handshake.code = 4001
           /\ (q.token = "user" /\ q.fault) => handshake.code = 4000
           /\ (q.token = "user" /\ ~q.fault /\ ~q.exists) => handshake.code = 4004
           /\ (q.token = "user" /\ ~q.fault /\ q.exists /\ ~MayJoin(q)) => handshake.code = 4003

\* C34: once the socket of a participant is closed, its endpoint's tasks end
\* and it leaves the registry; and when nobody else is registered, the
\* cancellation of its periodic_save makes the final flush.
C34_TeardownAndFlush ==
    /\ \A u \in Users :
          (sock[u] = "closed") ~> (~HasTasks(u) /\ u \notin KeySet(active_connections))
    /\ [][\A u \in Users :
            (Cancels(u) /\ KeySet(active_connections) \ {u} = {}) => Writes("flush")]_vars

\* C35: connect() of the queue-based manager starts _process_messages when it
\* makes the session of the document; the messages handled are the first of the
\* messages queued, in their order; and every message queued is handled in the
\* end, unless the session is over.
C35_QueueServed ==
    /\ [][CreatesSession => ProcessMessages \in qmanager'.tasks]_vars
    /\ [](Len(handled) <= Len(queued) /\ handled = SubSeq(queued, 1, Len(handled)))
    /\ \A i \in 1..MaxEvents :
          (Len(queued) >= i) ~> (Len(handled) >= i \/ qmanager.message_queues = <<>>)

\* some stored user has the email or the username of the request
Taken(user_in) ==
    \E i \in 1..Len(users) :
        users[i].email = user_in.email \/ users[i].username = user_in.username

\* C36: a register request whose email or username an existing user has is
\* answered with 400 and no step of it adds a user; and no two stored users
\* share an email or a username.
C36_DuplicateRejected ==
    /\ [][\A r \in Requests :
            /\ (RegisterCheck(r) /\ Taken(calls'[r].input)) =>
                  (calls'[r].pc = "done" /\ calls'[r].status = 400)
            /\ ((RegisterCheck(r) \/ RegisterCommit(r)) /\ Taken(calls'[r].input)) =>
                  users' = users]_vars
    /\ [](\A i, j \in 1..Len(users) :
            (users[i].email = users[j].email \/ users[i].username = users[j].username)
                => i = j)

C36_Witness ==
    /\ Len(users) = 2
    /\ \E r \in Requests :
          /\ calls[r].op = "register"
          /\ calls[r].status = 400
          /\ \E i \in 1..Len(users) :
                users[i].username = calls[r].input.username
                /\ users[i].email # calls[r].input.email

\* C37: a login with an unknown username or a wrong password is answered with
\* 401 and no tokens and changes no stored refresh token; a login with the
\* password of the user is answered with a bearer access token, and the refresh
\* token of the answer is the one stored for that user.
C37_LoginTokens ==
    [][\A r \in Requests :
          Login(r) =>
              LET form_data == calls'[r].input
                  rows == Matching(users, "username", form_data.username)
                  answer == calls'[r]
              IN IF rows = <<>> \/ rows[1].hashed_password # get_password_hash(form_data.password)
                 THEN /\ answer.status = 401
                      /\ answer.body = <<>>
                      /\ users' = users
                 ELSE /\ answer.status = 200
                      /\ answer.body.token_type = "bearer"
                      /\ answer.body.access_token.sub = form_data.username
                      /\ users'[rows[1].id].refresh_token = answer.body.refresh_token]_vars

\* the Character the last call of site s returned
Returned(s) == log'[s][Len(log'[s])].result[1]

\* C38: when site s inserts and another replica holds the sequence s held,
\* that replica, applying the Character insert returned, holds the sequence s
\* holds after the insert.
C38_RemoteInsertSameIndex ==
    [][\A s, t \in Sites :
          (LocalInsert(s) /\ t # s /\ crdt[t].characters = crdt[s].characters) =>
              apply_remote_operation(crdt[t], Returned(s)).characters
                  = crdt'[s].characters]_vars

\* C39: every channel whose receive loop runs is the channel stored in
\* active_connections under its document and user.
C39_RunningIsRegistered ==
    \A c \in Channels :
        channels[c].pc = "recv" =>
            /\ channels[c].user_id \in Keys(manager, channels[c].document_id)
            /\ registered[<<channels[c].document_id, channels[c].user_id>>] = c

\* process_messages, the document and the update endpoint, from an empty session
JoinNext ==
    \/ \E u \in Users : Connect(u)
    \/ \E u \in Users : JoinBroadcast(u)
    \/ \E u \in Users : BroadcastStep(u)
    \/ \E u \in Users : ClientSend(u)
    \/ \E u \in Users : ReceiveUpdate(u)
    \/ \E r \in Requests : UpdateDocumentRead(r)
    \/ \E r \in Requests : UpdateDocumentCommit(r)

SpecJoin == Init /\ [][JoinNext]_vars

\* the text of the document a state describes: its text field, or without one
\* the values of its live characters
StateText(state) ==
    IF "text" \in DOMAIN state THEN TextChars(state.text) ELSE TextOf(state.characters)

\* C40: the init that connect() sends carries the in-memory state of the
\* document as it is at the join, and the init of the endpoint that follows it
\* describes the same document.
C40_InitCarriesState ==
    /\ [][\A u \in Users : Connects(u) => outbox'[u] = <<Msg("init", 0, document_states')>>]_vars
    /\ [](\A u \in Users : \A i \in 1..Len(outbox[u]) :
            (outbox[u][i].type = "init" /\ outbox[u][i].user_id = u) =>
                StateText(outbox[u][i].content[1]) = StateText(outbox[u][1].content[1]))

====
